---- MODULE Spec2Model ----
(***************************************************************************)
(* A model of the trading-system core: the adaptive risk manager (circuit  *)
(* breakers, exposure and frequency gates, quality and contextual risk     *)
(* evaluation, regime adjustment, metrics) and the tape-reading emission   *)
(* pipeline (cooldown filter, defensive filter, confirmation emission).    *)
(*                                                                         *)
(* Time is the wall clock read by datetime.now(), in whole seconds; a      *)
(* handler runs at one clock reading.  Scores, factors and thresholds are  *)
(* exact rationals scaled to integers.                                     *)
(***************************************************************************)
EXTENDS Integers, Sequences, FiniteSets, TLC

VARIABLES
    now,                      \* the clock, seconds since the start of the run
    breakers,                 \* CircuitBreakerSystem.breakers
    metrics,                  \* RiskMetricsTracker.metrics
    signal_timestamps,        \* RiskMetricsTracker.signal_timestamps
    active_signals,           \* RiskMetricsTracker.active_signals
    current_market_regime,    \* AdaptiveRiskSystem.current_market_regime
    regime_adjustment_factors,\* AdaptiveRiskSystem.regime_adjustment_factors
    current_limits,           \* AdaptiveRiskSystem.current_limits
    last_daily_reset,         \* SystemCoordinator._last_daily_reset (its date)
    bus,                      \* what the last handler published or called
    trade_log,                \* PnL of the closed trades reported so far
    s4_at,                    \* clock reading at which scenario S4's fifth loss was reported
    last_pattern_time,        \* PatternCooldown.last_pattern_time
    pending_patterns,         \* PatternConfirmationSystem.pending_patterns, oldest first
    last_confirmation_check,  \* TapeReadingService._last_confirmation_check
    current_books,            \* TapeReadingService.current_books
    flow_direction,           \* OrchestrationHandlers.flow_direction
    last_flow_alert,          \* OrchestrationHandlers.last_flow_alert
    last_emission,            \* per symbol and pattern, the clock reading of the last
                              \* SIGNAL_GENERATED carrying it and its distance from the one before
    defended,                 \* the candidates the defensive filter saw in the last handler
    pending_evictions,        \* the pending map before and after each entry that
                              \* add_pending_pattern removed in the last handler
    pattern_detected,         \* the symbols and patterns published on PATTERN_DETECTED so far
    thread_pc,                \* where each thread calling the risk manager stands
    thread_local,             \* the locals of each such thread
    running,                  \* SystemCoordinator.running
    cache,                    \* TradeMemoryCache.cache, a deque per symbol
    cache_max_size,           \* TradeMemoryCache.max_size
    cache_stats,              \* TradeMemoryCache.stats: additions and evictions
    processed_trade_ids,      \* TapeReadingService.processed_trade_ids
    handlers,                 \* LocalEventBus.handlers
    dispatch,                 \* the publish call in progress or last finished
    buffers,                  \* JsonLogRepository.buffers['signals']
    save_counters,            \* JsonLogRepository._save_counters['signals']
    log_file,                 \* the records in signals.jsonl
    flushers,                 \* where each thread calling flush stands, and its batch
    matrix_rules,             \* ConfluenceMatrix.rules
    confluence_call,          \* the last confluence analysis of a handler: its input and outcome
    defensive_call,           \* the last call of DefensiveSignalFilter.is_signal_safe: its book and outcome
    sheet_trades,             \* how many WDO trades the sheet has shown so far
    processed_trades,         \* OrchestrationHandlers.processed_trades['WDO'], in the order added
    organized_trade_ids,      \* TapeReadingService.processed_trade_ids['WDO'], in the order added
    fed,                      \* the time labels of the trades added to the cache and analyzed so far
    fed_again,                \* the time labels of those added and analyzed more than once
    quality_min_score,        \* SignalQualityFilter.min_quality_score of the confirming pipeline, thousandths
    cached_trades,            \* the WDO trades of the cache of the confirming pipeline, oldest first
    raw_detections,           \* the detections the analyzers reported, with the cache size at each
    pending_confirmations,    \* its PatternConfirmationSystem.pending_patterns, oldest first
    confirmation_checked_at,  \* its TapeReadingService._last_confirmation_check
    confirmation_stamps,      \* its PatternCooldown.last_pattern_time
    nearby_levels,            \* OrchestrationHandlers.nearby_levels['WDO'], "" for None
    last_level_alert,         \* OrchestrationHandlers.last_level_alert['WDO']
    published,                \* the events the confirming pipeline published so far
    consecutive_errors,       \* SystemCoordinator.consecutive_errors
    error_count,              \* SystemCoordinator.error_count
    last_error_time,          \* SystemCoordinator.last_error_time
    loop_count,               \* SystemCoordinator.loop_count
    iterations,               \* how many passes of the main loop have started
    last_iteration,           \* the last pass of the main loop: what happened in it
    reset_log,                \* the clock readings at which DAILY_RESET was published
    book_history,             \* BookDynamicsAnalyzer.book_history['WDO'], oldest first
    flash_tracking,           \* BookDynamicsAnalyzer.flash_tracking['WDO']
    flash_signals,            \* the FLASH_ORDER signals of the last analyze_book_update
    book_calls                \* every book handed to analyze_book_update, with its clock reading

riskVars == <<now, breakers, metrics, signal_timestamps, active_signals,
              current_market_regime, regime_adjustment_factors, current_limits,
              last_daily_reset, bus, trade_log, s4_at>>

tapeVars == <<last_pattern_time, pending_patterns, last_confirmation_check,
              current_books, flow_direction, last_flow_alert, last_emission,
              defended, pending_evictions, pattern_detected>>

threadVars == <<thread_pc, thread_local>>

\* the state outside the risk manager and the tape-reading pipeline
cacheVars == <<running, cache, cache_max_size, cache_stats, processed_trade_ids>>

busVars == <<handlers, dispatch>>

persistVars == <<buffers, save_counters, log_file, flushers>>

confluenceVars == <<matrix_rules, confluence_call>>

defensiveVars == <<defensive_call>>

dedupVars == <<sheet_trades, processed_trades, organized_trade_ids, fed,
               fed_again>>

confirmVars == <<quality_min_score, cached_trades, raw_detections,
                 pending_confirmations, confirmation_checked_at,
                 confirmation_stamps, nearby_levels, last_level_alert, published>>

\* the counters of the main loop
loopVars == <<consecutive_errors, error_count, last_error_time, loop_count,
              iterations, last_iteration, reset_log>>

\* the state of the analyzer of book dynamics
flashVars == <<book_history, flash_tracking, flash_signals, book_calls>>

\* the state of the analyses around the pipeline
analysisVars == <<confluenceVars, defensiveVars, dedupVars, confirmVars, loopVars,
                  flashVars>>

extVars == <<threadVars, cacheVars, busVars, persistVars, analysisVars>>

\* the state of the risk manager, the pipeline and the infrastructure
coreVars == <<riskVars, tapeVars, threadVars, cacheVars, busVars, persistVars,
              loopVars, flashVars>>

vars == <<riskVars, tapeVars, extVars>>

-----------------------------------------------------------------------------
(* Bounds of the model and configuration inputs *)

\* risk_management.max_signals_per_minute chosen for the run
CfgMaxSignalsPerMinute == 2
\* risk_management.max_signals_per_hour chosen for the run
CfgMaxSignalsPerHour == 3
\* risk_management.max_confluence_per_hour chosen for the run
CfgMaxConfluencePerHour == 2
\* risk_management.max_concurrent_signals chosen for the run
CfgMaxConcurrentSignals == 2

\* caps on the approvals recorded and on the closed trades reported in a run,
\* for each specification
GateMaxSignals == 4
BreakerMaxSignals == 2
BreakerMaxTrades == 3
S4MaxSignals == 1
S4MaxTrades == 6

\* clock readings at which handlers run, for each specification
GateGrid == {0, 59, 60, 61, 3600}
BreakerGrid == {0, 1, 299, 300, 86400, 86401, 86700}
S4Grid == {0, 1, 299, 300, 301, 600}
TapeGrid == {0, 10, 15, 20, 40, 86410}

\* local time of day at clock reading 0 (09:00:00)
StartClock == 32400

NoTime == 0 - 1

-----------------------------------------------------------------------------
(* Program constants *)

SecondsPerDay == 86400
SecondsPerHour == 3600
SecondsPerMinute == 60
CircuitBreakerCooldown == 300
ExposureCooldown == 60
SignalTimeout == 60
BaseQualityThreshold == 350          \* 0.35, in thousandths
ConsecutiveLossesTrigger == 5
DrawdownTrigger == 2                 \* percent
EmergencyTrigger == 1000
ConsecutiveLossesLimit == 5
MaxDrawdownPercent == 2
EmergencyStopLoss == 1000
AllDequeMaxLen == 500
ConfluenceDequeMaxLen == 100

BreakerNames == {"frequency", "quality", "drawdown", "consecutive_losses",
                 "emergency", "exposure"}
Symbols == {"WDO", "DOL"}
Regimes == {"TRENDING_UP", "TRENDING_DOWN", "RANGING", "VOLATILE", "QUIET",
            "BREAKOUT", "REVERSAL"}

-----------------------------------------------------------------------------
(* datetime arithmetic *)

\* timedelta.seconds: the seconds field of a difference, days dropped
TimedeltaSeconds(d) == d % SecondsPerDay

\* datetime.hour and datetime.date() of a clock reading
HourOf(t) == ((t + StartClock) % SecondsPerDay) \div SecondsPerHour
DateOf(t) == (t + StartClock) \div SecondsPerDay

-----------------------------------------------------------------------------
(* CircuitBreakerSystem *)

BreakerCooldown(name) ==
    IF name = "exposure" THEN ExposureCooldown ELSE CircuitBreakerCooldown

InitBreakers ==
    [name \in BreakerNames |->
        [active |-> FALSE, triggered_at |-> NoTime,
         cooldown_seconds |-> BreakerCooldown(name)]]

ResetBreakerState(state) ==
    [state EXCEPT !.active = FALSE, !.triggered_at = NoTime]

\* faulty variant: the elapsed time is not compared with the cooldown
BreakerBlocksUntimed(state, t) ==
    /\ state.active
    /\ state.triggered_at = NoTime

\* check_all, for one breaker: does it make the check fail
BreakerBlocks(state, t) ==
    /\ state.active
    /\ \/ state.triggered_at = NoTime
       \/ TimedeltaSeconds(t - state.triggered_at) < state.cooldown_seconds

\* check_all, for one breaker: is it reset by the check
BreakerExpires(state, t) ==
    /\ state.active
    /\ state.triggered_at # NoTime
    /\ ~(TimedeltaSeconds(t - state.triggered_at) < state.cooldown_seconds)

\* check_all: result['triggered'] as the set of breaker names
CheckAllTriggered(brk, t) == {name \in BreakerNames : BreakerBlocks(brk[name], t)}

\* check_all: the breakers after the check
CheckAllBreakers(brk, t) ==
    [name \in BreakerNames |->
        IF BreakerExpires(brk[name], t) THEN ResetBreakerState(brk[name])
        ELSE brk[name]]

Trigger(brk, name, t) ==
    IF name \notin BreakerNames THEN brk
    ELSE IF ~brk[name].active
         THEN [brk EXCEPT ![name].active = TRUE, ![name].triggered_at = t]
         ELSE brk

ResetBreaker(brk, name) ==
    IF name \in BreakerNames
    THEN [brk EXCEPT ![name] = ResetBreakerState(brk[name])]
    ELSE brk

GetActiveBreakers(brk) == {name \in BreakerNames : brk[name].active}

\* current_drawdown is a percentage kept as the fraction num/den
DrawdownAtLeast(dd, pctNum, pctDen) == dd.num * pctDen >= pctNum * dd.den
DrawdownAbove(dd, pctNum, pctDen) == dd.num * pctDen > pctNum * dd.den

\* faulty variant: the loss streak must exceed the trigger, not reach it
UpdateFromMetricsLate(brk, m, t) ==
    LET b1 == IF m.consecutive_losses > ConsecutiveLossesTrigger
              THEN Trigger(brk, "consecutive_losses", t) ELSE brk
        b2 == IF DrawdownAtLeast(m.current_drawdown, DrawdownTrigger, 1)
              THEN Trigger(b1, "drawdown", t) ELSE b1
        b3 == IF m.daily_pnl <= 0 - EmergencyTrigger
              THEN Trigger(b2, "emergency", t) ELSE b2
    IN b3

UpdateFromMetrics(brk, m, t) ==
    LET b1 == IF m.consecutive_losses >= ConsecutiveLossesTrigger
              THEN Trigger(brk, "consecutive_losses", t) ELSE brk
        b2 == IF DrawdownAtLeast(m.current_drawdown, DrawdownTrigger, 1)
              THEN Trigger(b1, "drawdown", t) ELSE b1
        b3 == IF m.daily_pnl <= 0 - EmergencyTrigger
              THEN Trigger(b2, "emergency", t) ELSE b2
    IN b3

-----------------------------------------------------------------------------
(* RiskMetricsTracker *)

InitMetrics ==
    [consecutive_losses |-> 0, daily_pnl |-> 0, peak_pnl |-> 0,
     current_drawdown |-> [num |-> 0, den |-> 1]]

UpdatePnl(m, pnl) ==
    LET daily == m.daily_pnl + pnl
        peak == IF daily > m.peak_pnl THEN daily ELSE m.peak_pnl
        dd == IF peak > 0 THEN [num |-> (peak - daily) * 100, den |-> peak]
              ELSE [num |-> 0, den |-> 1]
    IN [consecutive_losses |-> IF pnl < 0 THEN m.consecutive_losses + 1 ELSE 0,
        daily_pnl |-> daily, peak_pnl |-> peak, current_drawdown |-> dd]

\* deque(maxlen=n).append
DequeAppend(q, x, maxlen) ==
    LET r == Append(q, x)
    IN IF Len(r) > maxlen THEN SubSeq(r, 2, Len(r)) ELSE r

CountAfter(q, cutoff) == Cardinality({i \in 1..Len(q) : q[i] > cutoff})

\* faulty variant: the count must exceed the limit, not reach it
MinuteLimitExceeded(ts, limits, t) ==
    CountAfter(ts.all, t - SecondsPerMinute) > limits.max_signals_per_minute

\* check_signal_frequency: the three comparisons
MinuteLimitHit(ts, limits, t) ==
    CountAfter(ts.all, t - SecondsPerMinute) >= limits.max_signals_per_minute

HourLimitHit(ts, limits, t) ==
    CountAfter(ts.all, t - SecondsPerHour) >= limits.max_signals_per_hour

ConfluenceLimitHit(ts, limits, sig, t) ==
    /\ sig.source = "CONFLUENCE"
    /\ CountAfter(ts.confluence, t - SecondsPerHour) >= limits.max_confluence_per_hour

CheckSignalFrequency(ts, limits, sig, t) ==
    ~(MinuteLimitHit(ts, limits, t) \/ HourLimitHit(ts, limits, t)
      \/ ConfluenceLimitHit(ts, limits, sig, t))

\* record_signal_approval: the timestamp deques
RecordTimestamps(ts, sig, t) ==
    [all |-> DequeAppend(ts.all, t, AllDequeMaxLen),
     confluence |-> IF sig.source = "CONFLUENCE"
                    THEN DequeAppend(ts.confluence, t, ConfluenceDequeMaxLen)
                    ELSE ts.confluence]

\* record_signal_approval: active_signals[signal_id] = {...}; the id is
\* "<source>_<now.timestamp()>", so an entry with the same id is replaced
SignalId(sig, t) == <<sig.source, t>>

RecordActive(act, sig, t) ==
    {a \in act : a.id # SignalId(sig, t)}
        \cup {[id |-> SignalId(sig, t), timestamp |-> t, timeout |-> t + SignalTimeout]}

\* cleanup_expired_signals (its timeout_seconds argument is not read)
CleanupExpiredSignals(act, timeout_seconds, t) ==
    {a \in act : ~(t > a.timeout)}

PruneDeque(q, cutoff) == SelectSeq(q, LAMBDA x : x > cutoff)

-----------------------------------------------------------------------------
(* AdaptiveRiskSystem: factors are exact, in thousandths *)

One == 1000
Mul(a, b) == (a * b) \div One
Max(a, b) == IF a >= b THEN a ELSE b
Min(a, b) == IF a <= b THEN a ELSE b

UnitFactors ==
    [signal_frequency |-> One, quality_threshold |-> One,
     concurrent_signals |-> One, timeout |-> One,
     circuit_breaker_sensitivity |-> One]

\* one pass of the loop over the symbols' regimes
AdjustFor(regime, adj) ==
    IF regime \in {"TRENDING_UP", "TRENDING_DOWN"} THEN
        [adj EXCEPT !.signal_frequency = Mul(@, 1200),
                    !.quality_threshold = Mul(@, 900),
                    !.concurrent_signals = Mul(@, 1300)]
    ELSE IF regime = "VOLATILE" THEN
        [adj EXCEPT !.signal_frequency = Mul(@, 700),
                    !.quality_threshold = Mul(@, 1300),
                    !.concurrent_signals = Mul(@, 600),
                    !.timeout = Mul(@, 800),
                    !.circuit_breaker_sensitivity = Mul(@, 1500)]
    ELSE IF regime = "QUIET" THEN
        [adj EXCEPT !.signal_frequency = Mul(@, 500),
                    !.quality_threshold = Mul(@, 1500),
                    !.concurrent_signals = Mul(@, 500)]
    ELSE IF regime = "BREAKOUT" THEN
        [adj EXCEPT !.signal_frequency = Mul(@, 1500),
                    !.quality_threshold = Mul(@, 800),
                    !.concurrent_signals = Mul(@, 1500),
                    !.timeout = Mul(@, 1200)]
    ELSE IF regime = "REVERSAL" THEN
        [adj EXCEPT !.signal_frequency = Mul(@, 800),
                    !.quality_threshold = Mul(@, 1200),
                    !.concurrent_signals = Mul(@, 800),
                    !.circuit_breaker_sensitivity = Mul(@, 1300)]
    ELSE adj

\* a normalisation that leaves the product as it is
Unclamped(x) == x

\* max(0.3, min(2.0, adjustments[key]))
Clamp(x) == Max(300, Min(2000, x))

\* faulty variant: regimes that differ are not treated more conservatively
CalculateRegimeAdjustmentsAlike(regime) ==
    LET a1 == AdjustFor(regime["DOL"], AdjustFor(regime["WDO"], UnitFactors))
    IN [k \in DOMAIN a1 |-> Clamp(a1[k])]

CalculateRegimeAdjustments(regime) ==
    LET a1 == AdjustFor(regime["DOL"], AdjustFor(regime["WDO"], UnitFactors))
        a2 == IF regime["WDO"] # regime["DOL"]
              THEN [a1 EXCEPT !.quality_threshold = Mul(@, 1100),
                              !.concurrent_signals = Mul(@, 900)]
              ELSE a1
    IN [k \in DOMAIN a2 |-> Clamp(a2[k])]

\* quality thresholds are in millionths
BaseLimits ==
    [max_signals_per_minute |-> CfgMaxSignalsPerMinute,
     max_signals_per_hour |-> CfgMaxSignalsPerHour,
     max_confluence_per_hour |-> CfgMaxConfluencePerHour,
     max_concurrent_signals |-> CfgMaxConcurrentSignals,
     signal_timeout |-> SignalTimeout,
     quality_threshold |-> BaseQualityThreshold * One]

ApplyRegimeAdjustments(factors) ==
    [max_signals_per_minute |->
        (CfgMaxSignalsPerMinute * factors.signal_frequency) \div One,
     max_signals_per_hour |->
        (CfgMaxSignalsPerHour * factors.signal_frequency) \div One,
     max_confluence_per_hour |->
        (CfgMaxConfluencePerHour * factors.signal_frequency) \div One,
     max_concurrent_signals |->
        Max(1, (CfgMaxConcurrentSignals * factors.concurrent_signals) \div One),
     signal_timeout |-> (SignalTimeout * factors.timeout) \div One,
     quality_threshold |->
        Min(900 * One, BaseQualityThreshold * factors.quality_threshold)]

-----------------------------------------------------------------------------
(* SignalEvaluator: weights in hundredths, scores in thousandths *)

SourceWeight == 150
LevelWeight == 80
DetailsWeight == 150
PatternWeight == 120

HighQualityPatterns == {"ESCORA_DETECTADA", "DIVERGENCIA_ALTA", "DIVERGENCIA_BAIXA",
                        "ICEBERG", "MOMENTUM_EXTREMO"}
MediumQualityPatterns == {"PRESSAO_COMPRA", "PRESSAO_VENDA", "VOLUME_SPIKE"}

QualityScore(sig) ==
    (IF sig.source = "CONFLUENCE" THEN SourceWeight * 10
     ELSE IF sig.source = "ARBITRAGE" THEN SourceWeight * 8
     ELSE IF sig.source = "TAPE_READING" THEN SourceWeight * 6
     ELSE SourceWeight * 3)
    + (IF sig.level = "ALERT" THEN LevelWeight * 10
       ELSE IF sig.level = "WARNING" THEN LevelWeight * 6
       ELSE LevelWeight * 2)
    + (IF sig.profit >= 50 THEN DetailsWeight * 6
       ELSE IF sig.profit >= 20 THEN DetailsWeight * 4
       ELSE 0)
    + (IF sig.original_pattern \in HighQualityPatterns THEN PatternWeight * 10
       ELSE IF sig.original_pattern \in MediumQualityPatterns THEN PatternWeight * 7
       ELSE 0)

MaxQualityScore == (SourceWeight + LevelWeight + DetailsWeight + PatternWeight) * 10

\* normalized_score = score / max_score, in millionths (max_score, 5.0 with
\* the default weights, divides 10^6 thousandths exactly)
NormalizedScore(sig) == QualityScore(sig) * ((One * One) \div MaxQualityScore)

\* faulty variant: the configured threshold is used, not the adjusted one
QualityPassedBase(sig, threshold) ==
    NormalizedScore(sig) >= BaseQualityThreshold * One

\* passed = normalized_score >= self.quality_threshold, in millionths;
\* evaluate_signal assigns current_limits['quality_threshold'] to it just before
QualityPassed(sig, threshold) == NormalizedScore(sig) >= threshold

RiskScoreToLevel(score) ==
    IF score >= 4 THEN "CRITICAL"
    ELSE IF score >= 3 THEN "HIGH"
    ELSE IF score >= 2 THEN "MEDIUM"
    ELSE "LOW"

EvaluateContextualRisk(sig, system_risk_level, drawdown, t) ==
    LET s1 == IF system_risk_level = "CRITICAL" THEN 3
              ELSE IF system_risk_level = "HIGH" THEN 2
              ELSE IF system_risk_level = "MEDIUM" THEN 1 ELSE 0
        s2 == IF DrawdownAbove(drawdown, 3, 2) THEN 2 ELSE 0
        s3 == IF HourOf(t) < 10 \/ HourOf(t) > 16 THEN 1 ELSE 0
        s4 == IF sig.cvd_roc > 150 \/ sig.cvd_roc < 0 - 150 THEN 1 ELSE 0
    IN RiskScoreToLevel(s1 + s2 + s3 + s4)

-----------------------------------------------------------------------------
(* RiskManager *)

CalculateCurrentRiskLevel(brk, m, regime) ==
    LET active_breakers == Cardinality(GetActiveBreakers(brk))
        volatile_count == Cardinality({s \in Symbols : regime[s] = "VOLATILE"})
    IN IF active_breakers >= 3 THEN "CRITICAL"
       ELSE IF active_breakers >= 2 THEN "HIGH"
       ELSE IF active_breakers >= 1 THEN "MEDIUM"
       ELSE IF m.consecutive_losses >= ConsecutiveLossesLimit THEN "CRITICAL"
       ELSE IF m.consecutive_losses * 10 >= ConsecutiveLossesLimit * 6 THEN "HIGH"
       ELSE IF DrawdownAtLeast(m.current_drawdown, MaxDrawdownPercent, 1) THEN "CRITICAL"
       ELSE IF DrawdownAtLeast(m.current_drawdown, MaxDrawdownPercent * 7, 10) THEN "HIGH"
       ELSE IF m.daily_pnl <= 0 - EmergencyStopLoss THEN "CRITICAL"
       ELSE IF m.daily_pnl * 2 <= 0 - EmergencyStopLoss THEN "HIGH"
       ELSE IF volatile_count >= 2 THEN "MEDIUM"
       ELSE "LOW"

\* faulty variant: the active count must exceed the limit, not reach it
ExposureLimitExceeded(act, limits) ==
    Cardinality(act) > limits.max_concurrent_signals

\* evaluate_signal: active_count >= current_limits['max_concurrent_signals']
ExposureLimitHit(act, limits) ==
    Cardinality(act) >= limits.max_concurrent_signals

\* what signal handling reads and writes: the breakers and the tracker's
\* timestamps and active signals
RiskStateNow ==
    [breakers |-> breakers, signal_timestamps |-> signal_timestamps,
     active_signals |-> active_signals]

\* evaluate_signal: the step that decides, "approved" when none rejects
EvaluateSignalOutcome(sig, rs) ==
    LET brk == CheckAllBreakers(rs.breakers, now)
    IN IF CheckAllTriggered(rs.breakers, now) # {} THEN "circuit_breaker"
       ELSE IF ExposureLimitHit(rs.active_signals, current_limits) THEN "exposure"
       ELSE IF ~CheckSignalFrequency(rs.signal_timestamps, current_limits, sig, now)
            THEN "frequency"
       ELSE IF ~QualityPassed(sig, current_limits.quality_threshold) THEN "quality"
       ELSE IF EvaluateContextualRisk(sig,
                   CalculateCurrentRiskLevel(brk, metrics, current_market_regime),
                   metrics.current_drawdown, now) \in {"HIGH", "CRITICAL"}
            THEN "contextual_risk"
       ELSE "approved"

-----------------------------------------------------------------------------
(* Inputs *)

\* a Signal: source, level and the details that are read
Signal(source, level, profit, original_pattern, cvd_roc, symbol, pattern) ==
    [source |-> source, level |-> level, profit |-> profit,
     original_pattern |-> original_pattern, cvd_roc |-> cvd_roc,
     symbol |-> symbol, pattern |-> pattern]

\* normalized scores 1.0, 0.396, 0.508 and 0.276
GateSignals ==
    {Signal("CONFLUENCE", "ALERT", 50, "ICEBERG", 0, "WDO", "ICEBERG"),
     Signal("CONFLUENCE", "WARNING", 0, "", 200, "WDO", ""),
     Signal("TAPE_READING", "ALERT", 0, "VOLUME_SPIKE", 0, "WDO", "VOLUME_SPIKE"),
     Signal("TAPE_READING", "WARNING", 0, "", 0, "WDO", "")}

BreakerSignals ==
    {Signal("CONFLUENCE", "ALERT", 50, "ICEBERG", 0, "WDO", "ICEBERG"),
     Signal("TAPE_READING", "INFO", 0, "", 200, "WDO", "")}

PnlInputs == {0 - 200, 500}

GateRegimes == {"RANGING", "VOLATILE", "BREAKOUT"}
BreakerRegimes == {"RANGING", "VOLATILE"}

Event(topic, sig, reason) == [topic |-> topic, signal |-> sig, reason |-> reason]
NoSignal == Signal("", "", 0, "", 0, "", "")

\* faulty variant: the handler does not publish the rejection
HandleSignalGeneratedMute(sig, rs) ==
    LET outcome == EvaluateSignalOutcome(sig, rs)
    IN [rs |->
           [breakers |-> CheckAllBreakers(rs.breakers, now),
            signal_timestamps |->
                IF outcome = "approved"
                THEN RecordTimestamps(rs.signal_timestamps, sig, now)
                ELSE rs.signal_timestamps,
            active_signals |->
                IF outcome = "approved"
                THEN RecordActive(rs.active_signals, sig, now)
                ELSE rs.active_signals],
        events |->
           <<Event("SIGNAL_GENERATED", sig, "")>>
           \o (IF outcome = "approved"
               THEN <<Event("SIGNAL_APPROVED", sig, outcome)>> ELSE <<>>)
           \o <<Event("display.add_signal", sig, ""),
                Event("signal_repo.save", sig, "")>>]

\* publish("SIGNAL_GENERATED", signal): RiskEventHandlers.handle_signal_generated
\* runs evaluate_signal and publishes its verdict, then
\* OrchestrationHandlers.handle_signal displays and saves the signal
HandleSignalGenerated(sig, rs) ==
    LET outcome == EvaluateSignalOutcome(sig, rs)
    IN [rs |->
           [breakers |-> CheckAllBreakers(rs.breakers, now),
            signal_timestamps |->
                IF outcome = "approved"
                THEN RecordTimestamps(rs.signal_timestamps, sig, now)
                ELSE rs.signal_timestamps,
            active_signals |->
                IF outcome = "approved"
                THEN RecordActive(rs.active_signals, sig, now)
                ELSE rs.active_signals],
        events |->
           <<Event("SIGNAL_GENERATED", sig, ""),
             Event(IF outcome = "approved" THEN "SIGNAL_APPROVED"
                   ELSE "SIGNAL_REJECTED", sig, outcome),
             Event("display.add_signal", sig, ""),
             Event("signal_repo.save", sig, "")>>]

-----------------------------------------------------------------------------
(* Tape reading: configuration and filters *)

\* pattern_cooldown map and signal_quality_threshold (thousandths)
DefaultPatternCooldown == 30
PressaoCompraCooldown == 15
MomentumExtremoCooldown == 20
InstitutionalFootprintCooldown == 60
TapeQualityThreshold == 350

\* pattern_confirmation: the patterns held for confirmation, the size of the
\* pending map, the deadline of an entry and the spacing of the checks
ConfirmationPatterns == {"MOMENTUM_EXTREMO"}
MaxPending == 2
ConfirmationTimeout == 30
CheckInterval == 1
MinContinuationCvd == 50

\* manipulation_detection
LayeringMinLevels == 4
LayeringMinVolume == 50
LayeringUniformityPercent == 10
SpoofingLevelsToCheck == 5
SpoofingImbalanceRatio == 5

\* flow reversal alerts
FlowCvdThreshold == 50
FlowStrongCvd == 150
FlowAlertCooldown == 20

\* the patterns a pattern analyzer reports in this model
TapePatterns == {"PRESSAO_COMPRA", "MOMENTUM_EXTREMO"}

\* the patterns that SIGNAL_GENERATED events carry in this model
EmittedPatterns == TapePatterns \cup {"FLOW_REVERSAL"}

\* a raw candidate: the detail map of a detection (ratio in hundredths);
\* near_level says whether its price is at a calculated level whose
\* confluence rule accepts the pattern
Candidate(symbol, pattern, ratio, cvd_roc, direction, near_level) ==
    [symbol |-> symbol, pattern |-> pattern, ratio |-> ratio,
     cvd_roc |-> cvd_roc, direction |-> direction, near_level |-> near_level]

\* cooldown_seconds.get(pattern, cooldown_seconds.get('default', 30))
CooldownSeconds(pattern) ==
    IF pattern = "PRESSAO_COMPRA" THEN PressaoCompraCooldown
    ELSE IF pattern = "MOMENTUM_EXTREMO" THEN MomentumExtremoCooldown
    ELSE IF pattern = "INSTITUTIONAL_FOOTPRINT" THEN InstitutionalFootprintCooldown
    ELSE DefaultPatternCooldown

\* a cooldown filter that lets everything through
CanEmitAlways(lpt, pattern, symbol, t) == TRUE

\* PatternCooldown.can_emit_pattern: its verdict
CanEmitPattern(lpt, pattern, symbol, t) ==
    \/ lpt[symbol][pattern] = NoTime
    \/ TimedeltaSeconds(t - lpt[symbol][pattern]) >= CooldownSeconds(pattern)

\* PatternCooldown.can_emit_pattern: the stamp it leaves when it lets through
StampPattern(lpt, pattern, symbol, t) ==
    [lpt EXCEPT ![symbol][pattern] = t]

Abs(x) == IF x < 0 THEN 0 - x ELSE x

\* SignalQualityFilter.evaluate_signal_quality: raw and maximum score, thousandths
TapeQuality(data) ==
    IF data.pattern \in {"PRESSAO_COMPRA", "PRESSAO_VENDA"}
    THEN [score |-> IF data.ratio > 90 THEN 2000
                    ELSE IF data.ratio > 85 THEN 1500 ELSE 500,
          max_score |-> 2000]
    ELSE IF data.pattern = "MOMENTUM_EXTREMO"
    THEN [score |-> IF Abs(data.cvd_roc) > 500 THEN 2500
                    ELSE IF Abs(data.cvd_roc) > 300 THEN 2000
                    ELSE IF Abs(data.cvd_roc) > 200 THEN 1500 ELSE 800,
          max_score |-> 2500]
    ELSE IF data.pattern = "ESCORA_DETECTADA"
    THEN [score |-> (IF data.volume > 5000 THEN 1500
                     ELSE IF data.volume > 2000 THEN 1000 ELSE 500)
                    + (IF data.concentration > 60 THEN 1500
                       ELSE IF data.concentration > 50 THEN 1000 ELSE 500),
          max_score |-> 3000]
    ELSE [score |-> 300, max_score |-> 1000]

\* normalized_score >= min_quality_score
TapeQualityPassed(data) ==
    LET q == TapeQuality(data)
    IN q.score * 1000 >= TapeQualityThreshold * q.max_score

\* SignalFormatter._get_signal_level
HighPriority ==
    {"ESCORA_DETECTADA", "DIVERGENCIA_BAIXA", "DIVERGENCIA_ALTA",
     "MOMENTUM_EXTREMO", "ICEBERG", "PRESSAO_COMPRA", "PRESSAO_VENDA",
     "INSTITUTIONAL_FOOTPRINT", "HIDDEN_LIQUIDITY", "MULTIFRAME_DIVERGENCE",
     "MULTIFRAME_CONFLUENCE", "HIDDEN_ACCUMULATION", "HIDDEN_DISTRIBUTION",
     "TRAP_DETECTED"}
MediumPriority ==
    {"PACE_ANOMALY", "VOLUME_SPIKE", "BOOK_PULLING", "BOOK_STACKING",
     "FLASH_ORDER", "REGIME_CHANGE", "IMBALANCE_SHIFT"}

GetSignalLevel(pattern) ==
    IF pattern \in HighPriority THEN "ALERT"
    ELSE IF pattern \in MediumPriority THEN "WARNING"
    ELSE "INFO"

\* SignalFormatter.format: original_pattern is the tag of the detail map
Format(data, symbol) ==
    Signal("TAPE_READING", GetSignalLevel(data.pattern), 0, data.pattern,
           data.cvd_roc, symbol, data.pattern)

\* an order book: the volumes of its levels, best first; NoBook is no book
Book(bids, asks) == [present |-> TRUE, bids |-> bids, asks |-> asks]
NoBook == [present |-> FALSE, bids |-> <<>>, asks |-> <<>>]

RECURSIVE Sum(_)
Sum(q) == IF q = <<>> THEN 0 ELSE Head(q) + Sum(Tail(q))

FirstLevels(q, n) == SubSeq(q, 1, Min(n, Len(q)))

\* a layering check that looks at the uniformity of the first levels only,
\* whatever their volume
LayeredSideAnyVolume(side) ==
    LET first == FirstLevels(side, LayeringMinLevels)
    IN /\ Len(side) >= LayeringMinLevels
       /\ \A i \in 1..Len(first) :
              100 * Abs(LayeringMinLevels * first[i] - Sum(first))
                  <= LayeringUniformityPercent * Sum(first)

\* _check_layering on one side: abs(vol - avg) / avg <= uniformity_threshold
\* for each of the first min_levels volumes, all at least min_volume_per_level
LayeredSide(side) ==
    LET first == FirstLevels(side, LayeringMinLevels)
    IN /\ Len(side) >= LayeringMinLevels
       /\ \A i \in 1..Len(first) : first[i] >= LayeringMinVolume
       /\ \A i \in 1..Len(first) :
              100 * Abs(LayeringMinLevels * first[i] - Sum(first))
                  <= LayeringUniformityPercent * Sum(first)

CheckLayering(book) == LayeredSide(book.bids) \/ LayeredSide(book.asks)

\* _check_spoofing: the heavier side is imbalance_ratio times the lighter
CheckSpoofing(book) ==
    LET bid_volume == Sum(FirstLevels(book.bids, SpoofingLevelsToCheck))
        ask_volume == Sum(FirstLevels(book.asks, SpoofingLevelsToCheck))
    IN /\ book.bids # <<>> /\ book.asks # <<>>
       /\ bid_volume # 0 /\ ask_volume # 0
       /\ Max(bid_volume, ask_volume)
              >= SpoofingImbalanceRatio * Min(bid_volume, ask_volume)

\* DefensiveSignalFilter.is_signal_safe
IsSignalSafe(book) ==
    ~(book.present /\ (CheckLayering(book) \/ CheckSpoofing(book)))

\* the tag of a confirmed pattern
ConfirmedTag(pattern) == pattern \o "_CONFIRMED"

\* the pattern a tag was made from
BasePattern(tag) ==
    IF \E p \in TapePatterns : tag = ConfirmedTag(p)
    THEN CHOOSE p \in TapePatterns : tag = ConfirmedTag(p)
    ELSE tag

-----------------------------------------------------------------------------
(* Tape reading: the pipeline of one market-data update.  The state a step
   reads and writes is threaded through as a record st. *)

\* a publication on SIGNAL_GENERATED inside a handler
PublishSignal(st, sig) ==
    LET r == HandleSignalGenerated(sig, st.rs)
        last == st.last_emission[sig.symbol][BasePattern(sig.pattern)]
    IN [st EXCEPT !.rs = r.rs,
                  !.events = @ \o r.events,
                  !.last_emission[sig.symbol][BasePattern(sig.pattern)] =
                      [at |-> now,
                       gap |-> IF last.at = NoTime THEN NoTime ELSE now - last.at]]

\* a publication on MANIPULATION_DETECTED: OrchestrationHandlers.handle_manipulation
\* displays and saves a MANIPULATION signal and publishes MANIPULATION_ALERT
PublishManipulation(st, sig) ==
    LET manipulation_signal ==
            Signal("MANIPULATION", "ALERT", 0, "", 0, sig.symbol, "")
    IN [st EXCEPT !.events = @ \o
           <<Event("MANIPULATION_DETECTED", sig, ""),
             Event("display.add_signal", manipulation_signal, ""),
             Event("signal_repo.save", manipulation_signal, ""),
             Event("MANIPULATION_ALERT", manipulation_signal, "")>>]

\* PatternConfirmationSystem.requires_confirmation
RequiresConfirmation(pattern) == pattern \in ConfirmationPatterns

\* faulty variant: the newest entry makes room
AddPendingPatternNewest(pending, data, t) ==
    LET newest == CHOOSE i \in 1..Len(pending) :
                      \A j \in 1..Len(pending) :
                          \/ pending[i].created_at > pending[j].created_at
                          \/ (pending[i].created_at = pending[j].created_at /\ i >= j)
        kept == IF Len(pending) >= MaxPending
                THEN SubSeq(pending, 1, newest - 1)
                         \o SubSeq(pending, newest + 1, Len(pending))
                ELSE pending
    IN Append(kept, [pattern |-> data.pattern, symbol |-> data.symbol,
                     data |-> data, created_at |-> t,
                     expires_at |-> t + ConfirmationTimeout])

\* PatternConfirmationSystem.add_pending_pattern: the oldest entry makes room
AddPendingPattern(pending, data, t) ==
    LET oldest == CHOOSE i \in 1..Len(pending) :
                      \A j \in 1..Len(pending) :
                          \/ pending[i].created_at < pending[j].created_at
                          \/ (pending[i].created_at = pending[j].created_at /\ i <= j)
        kept == IF Len(pending) >= MaxPending
                THEN SubSeq(pending, 1, oldest - 1)
                         \o SubSeq(pending, oldest + 1, Len(pending))
                ELSE pending
    IN Append(kept, [pattern |-> data.pattern, symbol |-> data.symbol,
                     data |-> data, created_at |-> t,
                     expires_at |-> t + ConfirmationTimeout])

\* _check_pattern_confirmation: momentum continues in the direction it had
PatternConfirmed(p, cvd) ==
    IF p.pattern = "MOMENTUM_EXTREMO"
    THEN IF p.data.direction = "COMPRA"
         THEN cvd[p.symbol] >= MinContinuationCvd
         ELSE cvd[p.symbol] <= 0 - MinContinuationCvd
    ELSE FALSE

\* PatternConfirmationSystem._emit_confirmed_pattern
EmitConfirmedPattern(st, p) ==
    LET signal_data == [p.data EXCEPT !.pattern = ConfirmedTag(p.pattern)]
        sig == Format(signal_data, p.symbol)
        stamped == [st EXCEPT
                       !.last_pattern_time =
                           StampPattern(@, p.pattern, p.symbol, now),
                       !.defended = Append(@, <<p.symbol, sig.pattern>>)]
    IN IF ~CanEmitPattern(st.last_pattern_time, p.pattern, p.symbol, now)
       THEN st
       ELSE IF IsSignalSafe(st.current_books[p.symbol])
            THEN PublishSignal(stamped, sig)
            ELSE PublishManipulation(stamped, sig)

RECURSIVE EmitConfirmedPatterns(_, _)
EmitConfirmedPatterns(st, confirmed) ==
    IF confirmed = <<>> THEN st
    ELSE EmitConfirmedPatterns(EmitConfirmedPattern(st, Head(confirmed)),
                               Tail(confirmed))

\* PatternConfirmationSystem.check_pending_patterns
CheckPendingPatterns(st, cvd) ==
    LET Expired(p) == now > p.expires_at
        Confirmed(p) == ~Expired(p) /\ PatternConfirmed(p, cvd)
        Kept(p) == ~Expired(p) /\ ~PatternConfirmed(p, cvd)
    IN EmitConfirmedPatterns(
           [st EXCEPT !.pending_patterns = SelectSeq(@, Kept)],
           SelectSeq(st.pending_patterns, Confirmed))

\* TapeReadingService._check_pending_patterns_if_needed
CheckPendingPatternsIfNeeded(st, cvd) ==
    IF now - st.last_confirmation_check >= CheckInterval
    THEN [CheckPendingPatterns(st, cvd) EXCEPT !.last_confirmation_check = now]
    ELSE st

\* faulty variant: the candidate is not published
PublishNoPatternDetected(st, data) == st

\* process_raw_signals: publish("PATTERN_DETECTED", signal_data).  Its handler,
\* handle_pattern_detected, calls risk.validate_signal, which RiskManager does
\* not have, and publishes nothing.
PublishPatternDetected(st, data) ==
    [st EXCEPT !.events =
                   Append(@, Event("PATTERN_DETECTED",
                                   Signal("", "", 0, "", data.cvd_roc,
                                          data.symbol, data.pattern), "")),
               !.pattern_detected = @ \cup {<<data.symbol, data.pattern>>}]

\* add_pending_pattern on a candidate that requires confirmation; what it
\* removed from a full map is noted
AddPending(st, data) ==
    LET before == st.pending_patterns
        after == AddPendingPattern(before, data, now)
    IN [st EXCEPT
           !.pending_patterns = after,
           !.pending_evictions =
               IF Len(before) >= MaxPending
               THEN Append(@, [had |-> before,
                               kept |-> SubSeq(after, 1, Len(after) - 1)])
               ELSE @]

\* SignalProcessor.process_raw_signals: one candidate that passed the quality
\* filter
ProcessCandidate(st, data) ==
    LET detected == PublishPatternDetected(st, data)
        sig == Format(data, data.symbol)
        stamped == [detected EXCEPT
                       !.last_pattern_time =
                           StampPattern(@, data.pattern, data.symbol, now),
                       !.defended = Append(@, <<data.symbol, sig.pattern>>)]
    IN IF RequiresConfirmation(data.pattern)
       THEN AddPending(detected, data)
       ELSE IF ~CanEmitPattern(detected.last_pattern_time, data.pattern,
                               data.symbol, now)
       THEN detected
       ELSE IF IsSignalSafe(detected.current_books[data.symbol])
            THEN [stamped EXCEPT !.returned =
                     Append(@, [signal |-> sig, near_level |-> data.near_level])]
            ELSE PublishManipulation(stamped, sig)

RECURSIVE ProcessCandidates(_, _)
ProcessCandidates(st, candidates) ==
    IF candidates = <<>> THEN st
    ELSE ProcessCandidates(ProcessCandidate(st, Head(candidates)),
                           Tail(candidates))

ProcessRawSignals(st, raw_signals) ==
    ProcessCandidates(st, SelectSeq(raw_signals, TapeQualityPassed))

\* TapeReadingService.process_new_trades
ProcessNewTrades(st, raw_signals, cvd) ==
    ProcessRawSignals(CheckPendingPatternsIfNeeded(st, cvd), raw_signals)

\* CalculatedMarketAnalyzer.analyze_confluence through _analyze_confluence:
\* a CONFLUENCE signal carrying the tape pattern, or none
AnalyzeConfluence(sig, near_level) ==
    IF sig.source = "TAPE_READING" /\ sig.pattern # "" /\ near_level
    THEN Signal("CONFLUENCE", "ALERT", 0, "", 0, sig.symbol, sig.pattern)
    ELSE NoSignal

\* both the confluence signal and the tape signal
ConfluenceAndOriginal(sig, confluence_signal) == <<confluence_signal, sig>>

\* handle_market_data: what is published for one signal of the tape service
ConfluenceOrOriginal(sig, confluence_signal) ==
    IF confluence_signal # NoSignal THEN <<confluence_signal>> ELSE <<sig>>

RECURSIVE PublishSignals(_, _)
PublishSignals(st, sigs) ==
    IF sigs = <<>> THEN st
    ELSE PublishSignals(PublishSignal(st, Head(sigs)), Tail(sigs))

RECURSIVE PublishReturned(_, _)
PublishReturned(st, returned) ==
    IF returned = <<>> THEN st
    ELSE LET r == Head(returned)
         IN PublishReturned(
                PublishSignals(st, ConfluenceOrOriginal(
                    r.signal, AnalyzeConfluence(r.signal, r.near_level))),
                Tail(returned))

\* _check_flow_direction for one symbol
FlowDirectionOf(cvd) ==
    IF cvd > FlowCvdThreshold THEN "COMPRA"
    ELSE IF cvd < 0 - FlowCvdThreshold THEN "VENDA"
    ELSE "NEUTRO"

CheckFlowDirection(st, symbol, cvd) ==
    LET current_direction == FlowDirectionOf(cvd)
        previous_direction == st.flow_direction[symbol]
        reversal == /\ previous_direction # current_direction
                    /\ previous_direction # "NEUTRO"
                    /\ current_direction # "NEUTRO"
        can_alert == \/ st.last_flow_alert[symbol] = NoTime
                     \/ ~(TimedeltaSeconds(now - st.last_flow_alert[symbol])
                              < FlowAlertCooldown)
        reversal_signal ==
            Signal("TAPE_READING",
                   IF Abs(cvd) > FlowStrongCvd THEN "ALERT" ELSE "WARNING",
                   0, "", 0, symbol, "FLOW_REVERSAL")
        alerted == IF reversal /\ can_alert
                   THEN [PublishSignal(st, reversal_signal)
                             EXCEPT !.last_flow_alert[symbol] = now]
                   ELSE st
    IN [alerted EXCEPT !.flow_direction[symbol] = current_direction]

-----------------------------------------------------------------------------
(* Inputs of the tape-reading pipeline *)

\* books: nothing suspicious, four near-equal bid levels, bids six times the
\* asks; and the books of one update, per symbol
CleanBook == Book(<<100, 60, 80, 70>>, <<90, 50, 120, 60>>)
LayeredBook == Book(<<100, 104, 100, 96>>, <<90, 50, 120, 60>>)
SpoofedBook == Book(<<300, 300>>, <<60, 40>>)
CleanBooks == [s \in Symbols |-> CleanBook]
SuspectBooks == [s \in Symbols |-> IF s = "WDO" THEN LayeredBook ELSE SpoofedBook]

\* CVD of the last trades per symbol
Buying == [s \in Symbols |-> IF s = "WDO" THEN 60 ELSE 0]
Selling == [s \in Symbols |-> IF s = "WDO" THEN 0 - 60 ELSE 0]

\* candidates of one batch of trades
PressaoWdo == Candidate("WDO", "PRESSAO_COMPRA", 95, 0, "COMPRA", FALSE)
PressaoWdoNear == Candidate("WDO", "PRESSAO_COMPRA", 95, 0, "COMPRA", TRUE)
PressaoWdoWeak == Candidate("WDO", "PRESSAO_COMPRA", 80, 0, "COMPRA", FALSE)
PressaoDol == Candidate("DOL", "PRESSAO_COMPRA", 95, 0, "COMPRA", FALSE)
MomentumWdo == Candidate("WDO", "MOMENTUM_EXTREMO", 0, 600, "COMPRA", FALSE)

\* a market-data update: the books, the CVD and the candidates of its trades
Update(books, cvd, raw_signals) ==
    [books |-> books, cvd |-> cvd, raw_signals |-> raw_signals]

TapeUpdates ==
    {Update(CleanBooks, Buying, <<PressaoWdo, PressaoDol>>),
     Update(CleanBooks, Selling, <<PressaoWdoNear>>),
     Update(SuspectBooks, Buying, <<PressaoWdo, PressaoDol>>),
     Update(CleanBooks, Selling, <<PressaoWdoWeak, MomentumWdo>>)}

\* updates whose snapshot holds no new trade: the books and the CVD
QuietUpdates == {Update(CleanBooks, Buying, <<>>), Update(CleanBooks, Selling, <<>>)}

\* the updates with new trades of the run with quiet updates
BusyUpdates ==
    {Update(CleanBooks, Buying, <<PressaoWdo, PressaoDol>>),
     Update(CleanBooks, Selling, <<PressaoWdoWeak, MomentumWdo>>)}

-----------------------------------------------------------------------------
(* TradeMemoryCache and the trades of a snapshot *)

\* tape_reading.buffer_size chosen for the run
CfgBufferSize == 2
\* cap on the trades added to the cache in a run
CacheMaxAdditions == 5

\* the size at which processed_trade_ids is trimmed
ProcessedIdsLimit == 500
MicrosPerMilli == 1000

\* ExcelMarketProvider._read_trades: a trade read at a timestamp in
\* microseconds of one day; its time_str keeps the milliseconds
Trade(symbol, timestamp, price, volume) ==
    [symbol |-> symbol, timestamp |-> timestamp, price |-> price,
     volume |-> volume, time_str |-> timestamp \div MicrosPerMilli]

\* _organize_trades_by_symbol: f"{trade.time_str}_{trade.price}_{trade.volume}"
TradeId(trade) == <<trade.time_str, trade.price, trade.volume>>

\* a symbol without a deque, and deque(maxlen=n)
NoDeque == [present |-> FALSE, maxlen |-> 0, items |-> <<>>]
NewDeque(maxlen) == [present |-> TRUE, maxlen |-> maxlen, items |-> <<>>]

\* the last n elements of a sequence
LastOf(q, n) ==
    IF n >= Len(q) THEN q ELSE SubSeq(q, Len(q) - n + 1, Len(q))

\* deque.extend(trades): elements fall off the left beyond maxlen
DequeExtend(d, trades) == [d EXCEPT !.items = LastOf(d.items \o trades, d.maxlen)]

\* add_trades, the evictions it counts
CountedEvictions(current_size, new_trades_count, max_size) ==
    IF current_size + new_trades_count > max_size
    THEN Min(current_size, current_size + new_trades_count - max_size)
    ELSE 0

\* add_trades(symbol, trades) on the cache c = [cache, max_size, stats]
AddTrades(c, symbol, trades) ==
    IF trades = <<>> THEN c
    ELSE LET d == IF c.cache[symbol].present THEN c.cache[symbol]
                  ELSE NewDeque(c.max_size)
         IN [c EXCEPT
                !.cache[symbol] = DequeExtend(d, trades),
                !.stats.evictions =
                    @ + CountedEvictions(Len(d.items), Len(trades), c.max_size),
                !.stats.additions = @ + Len(trades)]

\* get_recent_trades(symbol, count): a copy of the last count trades;
\* all_trades[-count:] is the whole list when count is 0
GetRecentTrades(ch, symbol, count) ==
    LET all_trades == ch[symbol].items
    IN IF ~ch[symbol].present THEN <<>>
       ELSE IF count >= Len(all_trades) THEN all_trades
       ELSE IF count = 0 THEN all_trades
       ELSE SubSeq(all_trades, Len(all_trades) - count + 1, Len(all_trades))

\* get_size(symbol)
GetSize(ch, symbol) == Len(ch[symbol].items)

\* _organize_trades_by_symbol: the trades not processed before, per symbol in
\* the order of the snapshot; o = [by_symbol, ids]
RECURSIVE OrganizeTradesBySymbol(_, _)
OrganizeTradesBySymbol(trades, o) ==
    IF trades = <<>> THEN o
    ELSE LET trade == Head(trades)
             symbol == trade.symbol
         IN OrganizeTradesBySymbol(Tail(trades),
                IF symbol \notin Symbols \/ TradeId(trade) \in o.ids[symbol] THEN o
                ELSE [by_symbol |-> [o.by_symbol EXCEPT ![symbol] = Append(@, trade)],
                      ids |-> [o.ids EXCEPT ![symbol] = @ \cup {TradeId(trade)}]])

\* trades of the snapshots: W3 and W3Late share a millisecond, price and volume
W1 == Trade("WDO", 1000, 5000, 10)
W2 == Trade("WDO", 2000, 5001, 5)
W3 == Trade("WDO", 3000, 5002, 20)
W3Late == Trade("WDO", 3400, 5002, 20)
D1 == Trade("DOL", 1000, 5010, 1)
D2 == Trade("DOL", 2000, 5011, 2)

\* the trades a snapshot delivers, sorted by timestamp within each symbol
Snapshots ==
    {<<W1>>, <<W2>>, <<W3, W3Late>>, <<W1, W2, W3>>, <<W2, D1>>, <<D2>>}

-----------------------------------------------------------------------------
(* LocalEventBus *)

\* the topic published in the run and the handlers that subscribe to it
BusTopics == {"SIGNAL_GENERATED"}
BusHandlers == {"handle_signal_generated", "_handle_signal", "handle_signal"}

\* cap on the length of a handler list
BusMaxHandlers == 3

\* no publish call yet
NoDispatch ==
    [active |-> FALSE, topic |-> "", index |-> 1, begun |-> <<>>,
     invoked |-> <<>>, raised |-> <<>>]

\* what one call of a handler does: it may call subscribe or unsubscribe on
\* the topic being dispatched, and it returns or raises an Exception
HandlerBody(call, handler, raises) ==
    [call |-> call, handler |-> handler, raises |-> raises]

PlainBodies == {HandlerBody("none", "", r) : r \in BOOLEAN}

ReentrantBodies ==
    PlainBodies \cup
    {HandlerBody(c, h, FALSE) : c \in {"subscribe", "unsubscribe"}, h \in BusHandlers}

\* subscribe: self.handlers[event_type].append(handler)
SubscribeTo(hs, handler) == Append(hs, handler)

\* unsubscribe: list.remove takes out the first occurrence, if there is one
UnsubscribeFrom(hs, handler) ==
    IF \E i \in 1..Len(hs) : hs[i] = handler
    THEN LET i == CHOOSE k \in 1..Len(hs) :
                     hs[k] = handler /\ \A j \in 1..(k - 1) : hs[j] # handler
         IN SubSeq(hs, 1, i - 1) \o SubSeq(hs, i + 1, Len(hs))
    ELSE hs

\* the list after the bus calls made by a handler body
AfterBody(hs, body) ==
    IF body.call = "subscribe" THEN SubscribeTo(hs, body.handler)
    ELSE IF body.call = "unsubscribe" THEN UnsubscribeFrom(hs, body.handler)
    ELSE hs

\* faulty variant: an exception of a handler ends the loop of publish
NextHandlerUncaught(index, raises, n) == IF raises THEN n + 1 ELSE index + 1

\* publish: where the for loop stands after a handler call; an Exception is
\* caught and logged inside the loop
NextHandler(index, raises, n) == index + 1

-----------------------------------------------------------------------------
(* JsonLogRepository *)

\* the threads that call flush: the background writer thread and the main
\* thread in the coordinator's maintenance pass
Flushers == {"writer_thread", "maintenance"}

\* cap on the records saved in a run
PersistMaxRecords == 4

NotFlushing == [pc |-> "idle", items_to_write |-> <<>>]

\* _write_batch_append: the file after the first written items of the batch
\* were appended; a batch that fails raises at item written + 1
WriteBatchAppend(file, batch, written) == file \o SubSeq(batch, 1, written)

-----------------------------------------------------------------------------
(* CalculatedMarketAnalyzer: levels, confluence matrix, confluence signals *)

\* prices are in hundredths of a point, confidences in hundredths,
\* the time of day in seconds since midnight

\* tolerancia_proximidade
ToleranciaProximidade == 300
\* ConfluenceMatrix: extreme_force_threshold, minimum_force, minimum_confidence
ExtremeForceThreshold == 9
MinimumForce == 7
MinimumConfidence == 65
\* the confidence of the two rules of check_extreme_conditions
ExtremeConfidence == 85
\* _create_confluence_signal: the PTAX bonus and the value it is capped at
PtaxBonus == 10
PtaxCap == 95

\* LevelCalculator.multiplicadores: the names of the levels, in the order of
\* the dictionary
LevelNames ==
    <<"SOFRER_2X", "SOFRER", "SX_SUP", "DEFENDO", "BASE", "PB", "SX",
      "DEVENDO", "SOFGRE">>

\* LevelCalculator.calculate: round(valor_justo + multiplicador * 12.5, 2)
\* on a day whose fair value is 5515.625
LevelPrice(nome) ==
    CASE nome = "SOFRER_2X" -> 553562
      [] nome = "SOFRER" -> 553125
      [] nome = "SX_SUP" -> 552562
      [] nome = "DEFENDO" -> 552125
      [] nome = "BASE" -> 551562
      [] nome = "PB" -> 551000
      [] nome = "SX" -> 550562
      [] nome = "DEVENDO" -> 550000
      [] nome = "SOFGRE" -> 549562

\* check_proximity: the first level of the dictionary within the tolerance,
\* "" when there is none
CheckProximity(price) ==
    LET near == {i \in 1..Len(LevelNames) :
                     Abs(price - LevelPrice(LevelNames[i]))
                         <= ToleranciaProximidade}
    IN IF near = {} THEN ""
       ELSE LevelNames[CHOOSE i \in near : \A j \in near : i <= j]

\* _parse_ptax_windows and is_ptax_window: inicio <= current_time <= fim
PtaxWindows ==
    {<<36000, 36600>>, <<39600, 40200>>, <<43200, 43800>>, <<46800, 47400>>}

IsPtaxWindow(time_of_day) ==
    \E w \in PtaxWindows : w[1] <= time_of_day /\ time_of_day <= w[2]

\* a rule of the matrix; NoRule is None
Rule(pattern, nivel, acao, confianca) ==
    [found |-> TRUE, pattern |-> pattern, nivel |-> nivel, acao |-> acao,
     confianca |-> confianca]
NoRule ==
    [found |-> FALSE, pattern |-> "", nivel |-> "", acao |-> "",
     confianca |-> 0]

\* ConfluenceMatrix._get_default_rules
DefaultRules ==
    {Rule("ABSORCAO_COMPRADORA", "DEVENDO", "COMPRA", 85),
     Rule("ABSORCAO_COMPRADORA", "SOFGRE", "COMPRA", 90),
     Rule("ABSORCAO_COMPRADORA", "PB", "COMPRA", 75),
     Rule("EXAUSTAO_VENDEDORA", "DEVENDO", "COMPRA", 80),
     Rule("EXAUSTAO_VENDEDORA", "SOFGRE", "COMPRA", 85),
     Rule("ICEBERG_COMPRADOR", "DEVENDO", "COMPRA", 85),
     Rule("ICEBERG_COMPRADOR", "PB", "COMPRA", 75),
     Rule("VOLUME_SPREAD_COMPRA", "DEVENDO", "COMPRA", 80),
     Rule("TRAP", "DEVENDO", "COMPRA", 85),
     Rule("SQUEEZE", "SOFGRE", "COMPRA", 90),
     Rule("DIVERGENCIA_ALTA", "DEVENDO", "COMPRA", 85),
     Rule("DIVERGENCIA_ALTA", "SOFGRE", "COMPRA", 90),
     Rule("DIVERGENCIA_ALTA", "PB", "COMPRA", 75),
     Rule("MOMENTUM_EXTREMO", "SOFGRE", "COMPRA", 85),
     Rule("MOMENTUM_EXTREMO", "DEVENDO", "COMPRA", 80),
     Rule("ABSORCAO_VENDEDORA", "SOFRER", "VENDA", 85),
     Rule("ABSORCAO_VENDEDORA", "SOFRER_2X", "VENDA", 90),
     Rule("ABSORCAO_VENDEDORA", "DEFENDO", "VENDA", 75),
     Rule("EXAUSTAO_COMPRADORA", "SOFRER", "VENDA", 80),
     Rule("EXAUSTAO_COMPRADORA", "SOFRER_2X", "VENDA", 85),
     Rule("ICEBERG_VENDEDOR", "DEFENDO", "VENDA", 75),
     Rule("ICEBERG_VENDEDOR", "SOFRER", "VENDA", 80),
     Rule("VOLUME_SPREAD_VENDA", "SOFRER", "VENDA", 80),
     Rule("TRAP", "SOFRER", "VENDA", 85),
     Rule("SQUEEZE", "SOFRER_2X", "VENDA", 90),
     Rule("DIVERGENCIA_BAIXA", "SOFRER", "VENDA", 85),
     Rule("DIVERGENCIA_BAIXA", "SOFRER_2X", "VENDA", 90),
     Rule("DIVERGENCIA_BAIXA", "DEFENDO", "VENDA", 75),
     Rule("MOMENTUM_EXTREMO", "SOFRER_2X", "VENDA", 85),
     Rule("MOMENTUM_EXTREMO", "SOFRER", "VENDA", 80)}

\* a matrix read from the configuration key matriz_confluencia: two rules
\* of the confidence given
ConfiguredRules(confianca) ==
    {Rule("MOMENTUM_EXTREMO", "DEVENDO", "COMPRA", confianca),
     Rule("DIVERGENCIA_ALTA", "DEVENDO", "COMPRA", confianca)}

\* self.rules.get((pattern_name, level_name))
RuleOf(rules, pattern_name, level_name) ==
    LET hits == {r \in rules : r.pattern = pattern_name /\ r.nivel = level_name}
    IN IF hits = {} THEN NoRule ELSE CHOOSE r \in hits : TRUE

\* ConfluenceMatrix.find_rule
FindRule(rules, pattern_name, level_name, signal_direction) ==
    LET rule == RuleOf(rules, pattern_name, level_name)
    IN IF rule.found /\ signal_direction # "" /\ rule.acao # signal_direction
       THEN NoRule
       ELSE rule

\* ConfluenceMatrix.check_extreme_conditions
CheckExtremeConditions(strength, level_name) ==
    IF strength >= ExtremeForceThreshold /\ level_name = "SOFRER_2X"
    THEN Rule("", level_name, "VENDA", ExtremeConfidence)
    ELSE IF strength >= ExtremeForceThreshold /\ level_name = "SOFGRE"
         THEN Rule("", level_name, "COMPRA", ExtremeConfidence)
         ELSE NoRule

\* is_valid_signal without its test of the strength
IsValidSignalAnyForce(rule, strength) ==
    rule.found /\ rule.confianca >= MinimumConfidence

\* ConfluenceMatrix.is_valid_signal
IsValidSignal(rule, strength) ==
    /\ rule.found
    /\ strength >= MinimumForce
    /\ rule.confianca >= MinimumConfidence

\* the confidence of a confluence signal with the bonus added and no cap
PtaxConfidenceUncapped(confianca, is_ptax) ==
    IF is_ptax THEN confianca + PtaxBonus ELSE confianca

\* _create_confluence_signal: confidence = min(confidence + 0.1, 0.95) in a
\* PTAX window, the rule's confidence outside
PtaxConfidence(confianca, is_ptax) ==
    IF is_ptax THEN Min(confianca + PtaxBonus, PtaxCap) ELSE confianca

\* the signal _create_confluence_signal returns: its source and the details
\* level, level_price, action, confidence, strength, is_ptax_window,
\* rule_applied and what the keyword arguments added; NoConfluence is None
NoConfluence ==
    [present |-> FALSE, source |-> "", pattern |-> "", symbol |-> "",
     price |-> 0, nivel |-> "", level_price |-> 0, action |-> "",
     confidence |-> 0, strength |-> 0, is_ptax_window |-> FALSE,
     rule_applied |-> NoRule, direction |-> ""]

CreateConfluenceSignal(tape_pattern, price, symbol, level_name, rule, strength, time_of_day, direction) ==
    [present |-> TRUE, source |-> "CONFLUENCE", pattern |-> tape_pattern,
     symbol |-> symbol, price |-> price, nivel |-> level_name,
     level_price |-> LevelPrice(level_name), action |-> rule.acao,
     confidence |-> PtaxConfidence(rule.confianca, IsPtaxWindow(time_of_day)),
     strength |-> strength, is_ptax_window |-> IsPtaxWindow(time_of_day),
     rule_applied |-> rule, direction |-> direction]

\* CalculatedMarketAnalyzer.analyze_confluence; direction is the keyword
\* argument of that name, "" when the caller passes none
CalculatedAnalyzeConfluence(rules, tape_pattern, price, symbol, strength, time_of_day, direction) ==
    LET level_name == CheckProximity(price)
        found == FindRule(rules, tape_pattern, level_name, direction)
        rule == IF found.found THEN found
                ELSE CheckExtremeConditions(strength, level_name)
    IN IF level_name = "" THEN NoConfluence
       ELSE IF IsValidSignal(rule, strength)
            THEN CreateConfluenceSignal(tape_pattern, price, symbol,
                                        level_name, rule, strength,
                                        time_of_day, direction)
            ELSE NoConfluence

\* SignalProcessor._calculate_strength
CalculateStrength(pattern, volume) ==
    LET base == IF pattern \in {"ABSORPTION_DETECTED", "EXHAUSTION_DETECTED",
                                "MOMENTUM_EXTREMO", "INSTITUTIONAL_FOOTPRINT"}
                THEN 8
                ELSE IF pattern \in {"ICEBERG", "DIVERGENCIA_ALTA",
                                     "DIVERGENCIA_BAIXA", "TRAP_DETECTED"}
                     THEN 7
                     ELSE 5
    IN IF volume > 2000 THEN Min(base + 2, 10)
       ELSE IF volume > 1000 THEN Min(base + 1, 10)
            ELSE base

\* the detail map of a detection that the confluence analysis reads
TapeDetails(symbol, pattern, price, volume, direction) ==
    [symbol |-> symbol, pattern |-> pattern, price |-> price,
     volume |-> volume, direction |-> direction]

\* OrchestrationHandlers._analyze_confluence and handle_pattern_detected:
\* the call of analyze_confluence they make on the details of a detection
HandlersAnalyzeConfluence(rules, details, time_of_day) ==
    IF details.pattern = "" \/ details.price = 0 THEN NoConfluence
    ELSE CalculatedAnalyzeConfluence(
             rules, details.pattern, details.price, details.symbol,
             CalculateStrength(details.pattern, details.volume),
             time_of_day, "")

\* the detections handed to the confluence analysis
ConfluencePatterns ==
    {"MOMENTUM_EXTREMO", "DIVERGENCIA_ALTA", "INSTITUTIONAL_FOOTPRINT",
     "SQUEEZE"}
ConfluencePrices == {549562, 549700, 550300, 553562, 554000}
ConfluenceVolumes == {400, 1500}
ConfluenceTimes == {36600, 36601}
ConfluenceConfidences == {60, 65, 95, 97}

\* the last call of the confluence analysis: what it was given and returned
NoConfluenceCall ==
    [made |-> FALSE, details |-> TapeDetails("", "", 0, 0, ""),
     time_of_day |-> 0, returned |-> NoConfluence, published |-> FALSE]

-----------------------------------------------------------------------------
(* DefensiveSignalFilter on the books of a run *)

\* the last call of is_signal_safe: none yet
NoDefensiveCall ==
    [made |-> FALSE, book |-> NoBook, layering |-> FALSE, safe |-> TRUE]

\* the depth of the books handed to the defensive filter, and the volumes of
\* their levels
LayeringMaxDepth == 5
LayeringVolumes == {40, 90, 110}

RECURSIVE SidesOfDepth(_)
SidesOfDepth(n) ==
    IF n = 0 THEN {<<>>}
    ELSE {Append(side, v) : side \in SidesOfDepth(n - 1), v \in LayeringVolumes}

\* one side of a book, from min_levels levels deep to the deepest
LayeringSides ==
    UNION {SidesOfDepth(n) : n \in LayeringMinLevels..LayeringMaxDepth}

\* the books handed to the defensive filter: every bid side over a plain ask
\* side, and two layered ask sides over a plain bid side
LayeringBooks ==
    {Book(bids, CleanBook.asks) : bids \in LayeringSides}
        \cup {Book(CleanBook.bids, <<90, 110, 90, 110>>),
              Book(CleanBook.bids, <<40, 90, 110, 90, 110>>)}

-----------------------------------------------------------------------------
(* Deduplication of the trades of overlapping snapshots *)

\* the trades the sheet shows in a run, and the rows of trades of a snapshot
DedupMaxTrades == 600
SnapshotRows == 12
\* how many ids the trim of a processed-id set keeps
ProcessedIdsKeep == 250

\* the n-th WDO trade of the sheet: its time label is n
SheetTrade(n) == Trade("WDO", n * MicrosPerMilli, 550000, 1)

\* the snapshot read when the sheet has shown high trades: its last rows
SnapshotOf(high) ==
    LET rows == Min(high, SnapshotRows)
    IN [i \in 1..rows |-> SheetTrade(high - rows + i)]

\* list(ids) of a set of strings yields them in the order of their hashes,
\* which changes from run to run: the model lets it be the order in which
\* the ids were added or the reverse of it
HashOrders == {"as_added", "reversed"}

\* set(list(ids)[-250:]) once the set holds more than 500 ids
TrimProcessed(ids, order) ==
    IF Len(ids) > ProcessedIdsLimit
    THEN IF order = "as_added" THEN LastOf(ids, ProcessedIdsKeep)
         ELSE SubSeq(ids, 1, ProcessedIdsKeep)
    ELSE ids

\* the ids of a sequence of ids
IdsOf(ids) == {ids[i] : i \in 1..Len(ids)}

\* OrchestrationHandlers._get_new_trades for WDO: the trades whose id is not
\* in processed_trades; the set is trimmed after the loop.  o = [new, ids, seen]
RECURSIVE GetNewTradesLoop(_, _)
GetNewTradesLoop(trades, o) ==
    IF trades = <<>> THEN o
    ELSE LET trade == Head(trades)
         IN GetNewTradesLoop(Tail(trades),
                IF TradeId(trade) \in o.seen THEN o
                ELSE [new |-> Append(o.new, trade),
                      ids |-> Append(o.ids, TradeId(trade)),
                      seen |-> o.seen \cup {TradeId(trade)}])

GetNewTrades(trades, ids, order) ==
    LET o == GetNewTradesLoop(trades,
                 [new |-> <<>>, ids |-> ids, seen |-> IdsOf(ids)])
    IN [new |-> o.new, ids |-> TrimProcessed(o.ids, order)]

\* TapeReadingService._organize_trades_by_symbol for WDO: the set is trimmed
\* inside the loop, after each trade
RECURSIVE OrganizeWdoLoop(_, _, _)
OrganizeWdoLoop(trades, o, order) ==
    IF trades = <<>> THEN o
    ELSE LET trade == Head(trades)
             added == IF TradeId(trade) \in o.seen THEN o
                      ELSE [new |-> Append(o.new, trade),
                            ids |-> Append(o.ids, TradeId(trade)),
                            seen |-> o.seen \cup {TradeId(trade)}]
             trimmed == TrimProcessed(added.ids, order)
         IN OrganizeWdoLoop(Tail(trades),
                IF Len(added.ids) > ProcessedIdsLimit
                THEN [new |-> added.new, ids |-> trimmed,
                      seen |-> IdsOf(trimmed)]
                ELSE added,
                order)

OrganizeWdo(trades, ids, order) ==
    LET o == OrganizeWdoLoop(trades,
                 [new |-> <<>>, ids |-> ids, seen |-> IdsOf(ids)], order)
    IN [new |-> o.new, ids |-> o.ids]

-----------------------------------------------------------------------------
(* Confirmation of pending patterns on the trades of WDO.  Prices are in
   hundredths, concentrations in percent, thresholds of ratios in tenths. *)

\* the trades of a run, and the patterns configured to require confirmation
ConfirmMaxTrades == 4
ConfirmMaxDetections == 2
HeldPatterns == {"ESCORA_DETECTADA", "INSTITUTIONAL_FOOTPRINT"}

\* the criteria of _build_confirmation_criteria
MinTests == 2
TestThresholdTenths == 7
MinPersistence == 30
VolumeThresholdTenths == 3

\* _check_absorption_confirmation reads the last 20 of the 100 most recent
\* trades and counts those within 0.5 of the level
RecentTradesCount == 100
AbsorptionLookback == 20
AbsorptionTolerance == 50

\* _check_institutional_confirmation: the institutional range of volumes
\* and the seconds it takes a check to stand for
InstitutionalMinVolume == 50
InstitutionalMaxVolume == 1000
SecondsPerCheck == 10

\* _check_level_proximity: the seconds between two alerts at one level
LevelAlertCooldown == 30

WdoTrade(price, volume) == [price |-> price, volume |-> volume]

\* the detail map of a detection of the analyzers
Detection(pattern, price, volume, concentration) ==
    [pattern |-> pattern, symbol |-> "WDO", price |-> price, level |-> price,
     volume |-> volume, concentration |-> concentration]

\* evaluate_signal_quality: normalized_score >= min_quality_score
PassesQuality(data, min_quality_score) ==
    LET q == TapeQuality(data)
    IN q.score * 1000 >= min_quality_score * q.max_score

\* _build_confirmation_criteria: the criteria that change, and level and
\* original_volume of an absorption
BuildConfirmationCriteria(data) ==
    [level |-> data.level, original_volume |-> data.volume,
     test_count |-> 0, persistence_checks |-> 0]

\* a trade tests the level of an absorption
IsTest(trade, criteria) ==
    /\ Abs(trade.price - criteria.level) <= AbsorptionTolerance
    /\ 10 * trade.volume >= criteria.original_volume * TestThresholdTenths

\* _check_absorption_confirmation: every test among the recent trades adds
\* to test_count, at every check
CheckAbsorptionConfirmation(criteria, trades) ==
    LET recent == LastOf(LastOf(trades, RecentTradesCount), AbsorptionLookback)
        tests == {i \in 1..Len(recent) : IsTest(recent[i], criteria)}
        updated == [criteria EXCEPT !.test_count = @ + Cardinality(tests)]
    IN [confirmed |-> updated.test_count >= MinTests, criteria |-> updated]

\* _check_institutional_confirmation: the share of the institutional volume
\* at this check, and persistence_checks * 10 >= min_persistence
CheckInstitutionalConfirmation(criteria, trades) ==
    LET recent == LastOf(trades, RecentTradesCount)
        volumes == [i \in 1..Len(recent) |-> recent[i].volume]
        institutional ==
            [i \in 1..Len(recent) |->
                IF /\ InstitutionalMinVolume <= recent[i].volume
                   /\ recent[i].volume <= InstitutionalMaxVolume
                THEN recent[i].volume ELSE 0]
        updated == [criteria EXCEPT !.persistence_checks = @ + 1]
    IN [confirmed |->
            /\ recent # <<>>
            /\ Sum(volumes) > 0
            /\ 10 * Sum(institutional) >= VolumeThresholdTenths * Sum(volumes)
            /\ updated.persistence_checks * SecondsPerCheck >= MinPersistence,
        criteria |-> updated]

\* _check_pattern_confirmation
CheckPatternConfirmation(pending, trades) ==
    IF pending.pattern = "ESCORA_DETECTADA"
    THEN CheckAbsorptionConfirmation(pending.criteria, trades)
    ELSE IF pending.pattern = "INSTITUTIONAL_FOOTPRINT"
    THEN CheckInstitutionalConfirmation(pending.criteria, trades)
    ELSE [confirmed |-> FALSE, criteria |-> pending.criteria]

\* add_pending_pattern with its criteria: the oldest entry makes room.
\* cached_at notes how many trades the cache held at the detection.
AddPendingConfirmation(pending, data, t, cached) ==
    LET oldest == CHOOSE i \in 1..Len(pending) :
                      \A j \in 1..Len(pending) :
                          \/ pending[i].created_at < pending[j].created_at
                          \/ (pending[i].created_at = pending[j].created_at /\ i <= j)
        kept == IF Len(pending) >= MaxPending
                THEN SubSeq(pending, 1, oldest - 1)
                         \o SubSeq(pending, oldest + 1, Len(pending))
                ELSE pending
    IN Append(kept, [pattern |-> data.pattern, data |-> data,
                     created_at |-> t, expires_at |-> t + ConfirmationTimeout,
                     criteria |-> BuildConfirmationCriteria(data),
                     attempts |-> 0, cached_at |-> cached])

\* an event of the confirming pipeline.  created_at and tests_after describe
\* the pending pattern a confirmed signal came from: when it was detected and
\* how many trades cached after the detection test its level.
PipelineEvent(topic, source, pattern, acao, nivel, confianca, t, created_at, tests_after) ==
    [topic |-> topic, source |-> source, pattern |-> pattern, action |-> acao,
     level |-> nivel, confidence |-> confianca, at |-> t,
     created_at |-> created_at, tests_after |-> tests_after]

TestsAfter(pending, trades) ==
    Cardinality({i \in 1..Len(trades) :
                    i > pending.cached_at /\ IsTest(trades[i], pending.criteria)})

\* _emit_confirmed_pattern: cooldown, format, defensive filter, publish.
\* o = [stamps, events]
EmitConfirmation(o, pending, book, trades, t) ==
    IF ~CanEmitPattern(o.stamps, pending.pattern, "WDO", t) THEN o
    ELSE [stamps |-> StampPattern(o.stamps, pending.pattern, "WDO", t),
          events |-> Append(o.events,
              PipelineEvent(IF IsSignalSafe(book) THEN "SIGNAL_GENERATED"
                            ELSE "MANIPULATION_DETECTED",
                            "TAPE_READING", ConfirmedTag(pending.pattern),
                            "", "", 0, t, pending.created_at,
                            IF pending.pattern = "ESCORA_DETECTADA"
                            THEN TestsAfter(pending, trades) ELSE 0))]

RECURSIVE EmitConfirmations(_, _, _, _, _)
EmitConfirmations(o, confirmed, book, trades, t) ==
    IF confirmed = <<>> THEN o
    ELSE EmitConfirmations(EmitConfirmation(o, Head(confirmed), book, trades, t),
                           Tail(confirmed), book, trades, t)

\* check_pending_patterns: expired entries are dropped, the others are
\* checked, and the confirmed ones are removed and emitted
CheckPendingConfirmations(pending, stamps, book, trades, t) ==
    LET Checked(p) ==
            [p EXCEPT !.criteria = CheckPatternConfirmation(p, trades).criteria,
                      !.attempts = @ + 1]
        Live(p) == ~(t > p.expires_at)
        Confirmed(p) == CheckPatternConfirmation(p, trades).confirmed
        live == SelectSeq(pending, Live)
        confirmed == SelectSeq(live, Confirmed)
        kept == SelectSeq(live, LAMBDA p : ~Confirmed(p))
        o == EmitConfirmations([stamps |-> stamps, events |-> <<>>],
                 [i \in 1..Len(confirmed) |-> Checked(confirmed[i])],
                 book, trades, t)
    IN [pending |-> [i \in 1..Len(kept) |-> Checked(kept[i])],
        stamps |-> o.stamps, events |-> o.events]

\* process_raw_signals on the detections of held patterns: quality filter,
\* publish PATTERN_DETECTED (its handler publishes nothing, see
\* HandlePatternDetected), add_pending_pattern
RECURSIVE HoldRawSignals(_, _, _, _, _)
HoldRawSignals(o, raw_signals, min_quality_score, t, cached) ==
    IF raw_signals = <<>> THEN o
    ELSE LET data == Head(raw_signals)
         IN HoldRawSignals(
                IF PassesQuality(data, min_quality_score)
                THEN [pending |-> AddPendingConfirmation(o.pending, data, t, cached),
                      events |-> Append(o.events,
                          PipelineEvent("PATTERN_DETECTED", "", data.pattern, "",
                                        "", 0, t, NoTime, 0))]
                ELSE o,
                Tail(raw_signals), min_quality_score, t, cached)

\* _check_level_proximity for WDO
CheckLevelProximity(nearby, alert_at, last_price, t) ==
    LET level_name == CheckProximity(last_price)
        can_alert == \/ alert_at = NoTime
                     \/ TimedeltaSeconds(t - alert_at) >= LevelAlertCooldown
        alerts == level_name # "" /\ (nearby # level_name \/ can_alert)
    IN IF last_price = 0
       THEN [nearby |-> nearby, alert_at |-> alert_at, events |-> <<>>]
       ELSE
       [nearby |-> level_name,
        alert_at |-> IF alerts THEN t ELSE alert_at,
        events |-> IF alerts
                   THEN <<PipelineEvent("SIGNAL_GENERATED", "TAPE_READING",
                                        "LEVEL_PROXIMITY", "", level_name, 0, t,
                                        NoTime, 0)>>
                   ELSE <<>>]

\* the last price of a snapshot is the price of the latest trade, 0 before
\* the first
LastPrice(trades) == IF trades = <<>> THEN 0 ELSE trades[Len(trades)].price

\* the inputs of the runs of the confirming pipeline
SmallTrade == WdoTrade(550000, 5)
ConfirmingTrade == WdoTrade(550050, 300)
ConfirmTrades == {SmallTrade, ConfirmingTrade}
AbsorptionAtDevendo == Detection("ESCORA_DETECTADA", 550000, 400, 50)
ConfirmDetections ==
    {AbsorptionAtDevendo, Detection("INSTITUTIONAL_FOOTPRINT", 550000, 400, 0)}
ConfirmBooks ==
    {Book(<<100, 200>>, <<150, 100>>), Book(<<100, 100, 100, 100>>, <<150>>)}
ConfirmQualities == {300, 350}
ConfirmGrid == {0, 1, 2, 3, 40}

-----------------------------------------------------------------------------
(* Threads calling the risk manager *)

\* two callers of the one RiskManager
Threads == {"t1", "t2"}

\* the locals of a call: the signal under evaluation, the keys the cleanup
\* loop started iterating over, and whether the call raised
NoLocals == [signal |-> NoSignal, seen |-> {}, raised |-> FALSE]

ThreadSignals ==
    {Signal("CONFLUENCE", "ALERT", 50, "ICEBERG", 0, "WDO", "ICEBERG"),
     Signal("TAPE_READING", "ALERT", 0, "VOLUME_SPIKE", 0, "WDO", "VOLUME_SPIKE")}

\* cap on the approvals recorded and clock readings of the threaded run
ThreadMaxSignals == 3
ThreadGrid == {0, 30, 61}

-----------------------------------------------------------------------------
(* SystemCoordinator: the main loop *)

\* system.max_consecutive_errors chosen for the run
CfgMaxConsecutiveErrors == 2
\* system.daily_reset_time chosen for the run, seconds after midnight (10:00)
CfgDailyResetTime == 36000
\* system.min_backoff_seconds and system.max_backoff_seconds, the defaults
MinBackoff == 1
MaxBackoff == 60
\* _handle_general_error: an error later than this after the last one starts
\* the count again
ErrorResetAfter == 300
\* _handle_general_error: the exponent of the backoff is capped
BackoffExponentCap == 10
\* _handle_connection_error: max_reconnect_attempts
MaxReconnectAttempts == 3
\* the steps of OrchestrationHandlers.handle_market_data
HandlerSteps == 7
\* passes of the main loop in a run
LoopMaxPasses == 4
\* approvals recorded and closed trades reported in a run of the main loop
LoopMaxSignals == 1
LoopMaxTrades == 1
\* clock readings of the main loop: 10:00, and with midnight and 10:00 of the
\* next day for the daily reset
LoopGrid == {3600}
ResetGrid == {3600, 54000, 90000}

RECURSIVE Pow2(_)
Pow2(n) == IF n = 0 THEN 1 ELSE 2 * Pow2(n - 1)

\* the local time of day of a clock reading, seconds after midnight
SecondsOfDay(t) == (t + StartClock) % SecondsPerDay

\* what the provider and the handlers do in one pass of the loop
LoopOutcomes ==
    {"data", "detector_raised", "no_data", "error", "connection_restored",
     "connection_lost", "memory_error", "keyboard_interrupt"}

\* the passes that reach the end of the try block
CompletedOutcomes == {"data", "detector_raised", "no_data"}

\* faulty variants of the guard of the daily reset
ShouldResetBeforeTime(t, reset_time, last) ==
    (last = NoTime) \/ (last < DateOf(t))
ShouldResetEveryPass(t, reset_time, last) ==
    SecondsOfDay(t) >= reset_time

\* _check_daily_reset: should_reset, with last the date of _last_daily_reset
ShouldReset(t, reset_time, last) ==
    /\ SecondsOfDay(t) >= reset_time
    /\ (last = NoTime) \/ (last < DateOf(t))

\* handle_market_data: the steps that ran to their end when the step at
\* raised_at raised, all of them when none did (raised_at = 0); the handler's
\* except clause logs and returns
StepsRun(raised_at) ==
    IF raised_at = 0 THEN 1..HandlerSteps ELSE 1..(raised_at - 1)

\* the counters the error handlers read and write
LoopState(consecutive, total, last_error, is_running) ==
    [consecutive_errors |-> consecutive, error_count |-> total,
     last_error_time |-> last_error, running |-> is_running]

LoopEvent(topic, consecutive) == [topic |-> topic, consecutive |-> consecutive]

\* _handle_general_error at clock reading t: the counters after it, how long
\* it slept and what it published
HandleGeneralError(ls, t) ==
    LET counted == ls.consecutive_errors + 1
        backoff == Min(MaxBackoff,
                       MinBackoff * Pow2(Min(counted - 1, BackoffExponentCap)))
        late == ls.last_error_time # NoTime
                    /\ t - ls.last_error_time > ErrorResetAfter
    IN [ls |-> [ls EXCEPT !.error_count = ls.error_count + 1,
                          !.consecutive_errors = IF late THEN 1 ELSE counted,
                          !.last_error_time = t],
        slept |-> IF late THEN MinBackoff ELSE backoff,
        events |-> <<LoopEvent("SYSTEM_ERROR", counted)>>]

\* the except Exception clause of start: the handler, then the abort check
GeneralErrorRaised(ls, t) ==
    LET h == HandleGeneralError(ls, t)
    IN IF h.ls.consecutive_errors >= CfgMaxConsecutiveErrors
       THEN [ls |-> [h.ls EXCEPT !.running = FALSE],
             slept |-> h.slept,
             events |-> Append(h.events,
                               LoopEvent("SYSTEM_CRITICAL_FAILURE",
                                         h.ls.consecutive_errors))]
       ELSE h

\* _handle_connection_error when provider.connect() first succeeds at the
\* given attempt, 0 when every attempt fails
HandleConnectionError(ls, succeeded_at) ==
    IF succeeded_at = 0
    THEN [ls |-> [ls EXCEPT !.consecutive_errors = ls.consecutive_errors + 1],
          slept |-> Pow2(MaxReconnectAttempts) - 1,
          events |-> <<>>]
    ELSE [ls |-> ls, slept |-> Pow2(succeeded_at) - 1, events |-> <<>>]

\* what a pass of the loop leaves in last_iteration
Iteration(outcome, at, slept, events, steps, before, reset, active_before) ==
    [outcome |-> outcome, at |-> at, slept |-> slept, events |-> events,
     steps |-> steps, before |-> before, reset |-> reset,
     active_before |-> active_before]

NoIteration ==
    Iteration("", NoTime, 0, <<>>, {}, LoopState(0, 0, NoTime, TRUE), FALSE, 0)

-----------------------------------------------------------------------------
(* Handlers of the risk manager *)

InitRisk ==
    /\ now = 0
    /\ breakers = InitBreakers
    /\ metrics = InitMetrics
    /\ signal_timestamps = [all |-> <<>>, confluence |-> <<>>]
    /\ active_signals = {}
    /\ current_market_regime = [s \in Symbols |-> "RANGING"]
    /\ regime_adjustment_factors =
           CalculateRegimeAdjustments([s \in Symbols |-> "RANGING"])
    /\ current_limits = BaseLimits
    /\ last_daily_reset = NoTime
    /\ bus = <<>>
    /\ trade_log = <<>>
    /\ s4_at = NoTime
    /\ last_pattern_time = [s \in Symbols |-> [p \in TapePatterns |-> NoTime]]
    /\ pending_patterns = <<>>
    /\ last_confirmation_check = 0
    /\ current_books = [s \in Symbols |-> NoBook]
    /\ flow_direction = [s \in Symbols |-> "NEUTRO"]
    /\ last_flow_alert = [s \in Symbols |-> NoTime]
    /\ last_emission = [s \in Symbols |->
                            [p \in EmittedPatterns |-> [at |-> NoTime, gap |-> NoTime]]]
    /\ defended = <<>>
    /\ pending_evictions = <<>>
    /\ pattern_detected = {}
    /\ thread_pc = [t \in Threads |-> "idle"]
    /\ thread_local = [t \in Threads |-> NoLocals]
    /\ running = TRUE
    /\ cache = [s \in Symbols |-> NoDeque]
    /\ cache_max_size = CfgBufferSize
    /\ cache_stats = [additions |-> 0, evictions |-> 0]
    /\ processed_trade_ids = [s \in Symbols |-> {}]
    /\ handlers = [topic \in BusTopics |-> <<>>]
    /\ dispatch = NoDispatch
    /\ buffers = <<>>
    /\ save_counters = 0
    /\ log_file = <<>>
    /\ flushers = [f \in Flushers |-> NotFlushing]
    /\ matrix_rules = DefaultRules
    /\ confluence_call = NoConfluenceCall
    /\ defensive_call = NoDefensiveCall
    /\ sheet_trades = 0
    /\ processed_trades = <<>>
    /\ organized_trade_ids = <<>>
    /\ fed = {}
    /\ fed_again = {}
    /\ quality_min_score = TapeQualityThreshold
    /\ cached_trades = <<>>
    /\ raw_detections = <<>>
    /\ pending_confirmations = <<>>
    /\ confirmation_checked_at = 0
    /\ confirmation_stamps = [s \in {"WDO"} |-> [p \in HeldPatterns |-> NoTime]]
    /\ nearby_levels = ""
    /\ last_level_alert = NoTime
    /\ published = <<>>
    /\ consecutive_errors = 0
    /\ error_count = 0
    /\ last_error_time = NoTime
    /\ loop_count = 0
    /\ iterations = 0
    /\ last_iteration = NoIteration
    /\ reset_log = <<>>
    /\ book_history = <<>>
    /\ flash_tracking = {}
    /\ flash_signals = {}
    /\ book_calls = <<>>

\* a signal is published on SIGNAL_GENERATED
SignalGenerated(sig, cap) ==
    LET r == HandleSignalGenerated(sig, RiskStateNow)
    IN /\ Len(signal_timestamps.all) < cap
       /\ breakers' = r.rs.breakers
       /\ signal_timestamps' = r.rs.signal_timestamps
       /\ active_signals' = r.rs.active_signals
       /\ bus' = r.events
       /\ UNCHANGED <<now, metrics, current_market_regime, regime_adjustment_factors,
                      current_limits, last_daily_reset, trade_log, s4_at>>
       /\ UNCHANGED <<tapeVars, extVars>>

\* publish("TRADE_CLOSED", {'pnl': pnl}): RiskEventHandlers.handle_trade_closed
TradeClosed(pnl, cap) ==
    LET m == UpdatePnl(metrics, pnl)
        log == Append(trade_log, pnl)
    IN /\ Len(trade_log) < cap
       /\ metrics' = m
       /\ breakers' = UpdateFromMetrics(breakers, m, now)
       /\ trade_log' = log
       /\ s4_at' = IF Len(log) = 5 /\ \A i \in 1..5 : log[i] = 0 - 200
                   THEN now ELSE s4_at
       /\ bus' = <<>>
       /\ UNCHANGED <<now, signal_timestamps, active_signals, current_market_regime,
                      regime_adjustment_factors, current_limits, last_daily_reset>>
       /\ UNCHANGED <<tapeVars, extVars>>

\* publish("MARKET_DATA_UPDATED", data): RiskEventHandlers.handle_market_update
MarketDataUpdated ==
    /\ active_signals' =
           CleanupExpiredSignals(active_signals, current_limits.signal_timeout, now)
    /\ bus' = <<Event("MARKET_DATA_UPDATED", NoSignal, "")>>
    /\ UNCHANGED <<now, breakers, metrics, signal_timestamps, current_market_regime,
                   regime_adjustment_factors, current_limits,
                   last_daily_reset, trade_log, s4_at>>
    /\ UNCHANGED <<tapeVars, extVars>>

\* publish("REGIME_CHANGE", {...}): RiskEventHandlers.handle_regime_change
RegimeChange(symbol, new_regime) ==
    /\ current_market_regime[symbol] # new_regime
    /\ LET regime == [current_market_regime EXCEPT ![symbol] = new_regime]
           factors == CalculateRegimeAdjustments(regime)
       IN /\ current_market_regime' = regime
          /\ regime_adjustment_factors' = factors
          /\ current_limits' = ApplyRegimeAdjustments(factors)
    /\ bus' = <<Event("RISK_REGIME_ADJUSTED", NoSignal, symbol)>>
    /\ UNCHANGED <<now, breakers, metrics, signal_timestamps, active_signals,
                   last_daily_reset, trade_log, s4_at>>
    /\ UNCHANGED <<tapeVars, extVars>>

\* SystemCoordinator._check_daily_reset with daily_reset_time 00:00, and
\* RiskManager.reset_daily_metrics
DailyReset ==
    /\ (last_daily_reset = NoTime) \/ (last_daily_reset < DateOf(now))
    /\ metrics' = [metrics EXCEPT !.daily_pnl = 0, !.peak_pnl = 0,
                                  !.current_drawdown = [num |-> 0, den |-> 1]]
    /\ signal_timestamps' =
           [k \in DOMAIN signal_timestamps |->
               PruneDeque(signal_timestamps[k], now - SecondsPerDay)]
    /\ active_signals' = {}
    /\ breakers' = ResetBreaker(breakers, "emergency")
    /\ last_daily_reset' = DateOf(now)
    /\ bus' = <<Event("DAILY_RESET", NoSignal, "")>>
    /\ UNCHANGED <<now, current_market_regime, regime_adjustment_factors,
                   current_limits, trade_log, s4_at>>
    /\ UNCHANGED <<tapeVars, extVars>>

\* the clock moves on to a later reading
Tick(grid) ==
    /\ \E t \in grid : t > now /\ now' = t
    /\ bus' = <<>>
    /\ UNCHANGED <<breakers, metrics, signal_timestamps, active_signals,
                   current_market_regime, regime_adjustment_factors, current_limits,
                   last_daily_reset, trade_log, s4_at>>
    /\ UNCHANGED <<tapeVars, extVars>>

\* OrchestrationHandlers.handle_market_data with new trades, after
\* RiskEventHandlers.handle_market_update: the books are updated, the tape
\* service checks pending patterns and filters the candidates of the new
\* trades, each signal it returns is published once, and the flow direction
\* is checked.  cvd is the CVD of the last trades per symbol.  No price is
\* near a calculated level by itself, the book analyzers report nothing and
\* the regime detector reports no change.
MarketData(books, cvd, raw_signals) ==
    LET st0 == [rs |-> [RiskStateNow EXCEPT !.active_signals =
                           CleanupExpiredSignals(@, current_limits.signal_timeout, now)],
                events |-> <<Event("MARKET_DATA_UPDATED", NoSignal, "")>>,
                last_pattern_time |-> last_pattern_time,
                pending_patterns |-> pending_patterns,
                last_confirmation_check |-> last_confirmation_check,
                current_books |-> books,
                flow_direction |-> flow_direction,
                last_flow_alert |-> last_flow_alert,
                last_emission |-> last_emission,
                defended |-> <<>>,
                pending_evictions |-> <<>>,
                pattern_detected |-> pattern_detected,
                returned |-> <<>>]
    IN \E st1 \in {ProcessNewTrades(st0, raw_signals, cvd)} :
       \E st2 \in {PublishReturned(st1, st1.returned)} :
       \E st3 \in {CheckFlowDirection(st2, "WDO", cvd["WDO"])} :
       \E st4 \in {CheckFlowDirection(st3, "DOL", cvd["DOL"])} :
          /\ breakers' = st4.rs.breakers
          /\ signal_timestamps' = st4.rs.signal_timestamps
          /\ active_signals' = st4.rs.active_signals
          /\ bus' = st4.events
          /\ last_pattern_time' = st4.last_pattern_time
          /\ pending_patterns' = st4.pending_patterns
          /\ last_confirmation_check' = st4.last_confirmation_check
          /\ current_books' = st4.current_books
          /\ flow_direction' = st4.flow_direction
          /\ last_flow_alert' = st4.last_flow_alert
          /\ last_emission' = st4.last_emission
          /\ defended' = st4.defended
          /\ pending_evictions' = st4.pending_evictions
          /\ pattern_detected' = st4.pattern_detected
          /\ UNCHANGED <<now, metrics, current_market_regime,
                         regime_adjustment_factors, current_limits,
                         last_daily_reset, trade_log, s4_at>>
          /\ UNCHANGED extVars

\* OrchestrationHandlers.handle_market_data when _get_new_trades finds no new
\* trade: process_new_trades is not called, so pending patterns are not
\* checked; the books are updated and the flow direction is checked
MarketDataQuiet(books, cvd) ==
    LET st0 == [rs |-> [RiskStateNow EXCEPT !.active_signals =
                           CleanupExpiredSignals(@, current_limits.signal_timeout, now)],
                events |-> <<Event("MARKET_DATA_UPDATED", NoSignal, "")>>,
                last_pattern_time |-> last_pattern_time,
                pending_patterns |-> pending_patterns,
                last_confirmation_check |-> last_confirmation_check,
                current_books |-> books,
                flow_direction |-> flow_direction,
                last_flow_alert |-> last_flow_alert,
                last_emission |-> last_emission,
                defended |-> <<>>,
                pending_evictions |-> <<>>,
                pattern_detected |-> pattern_detected,
                returned |-> <<>>]
    IN \E st1 \in {CheckFlowDirection(st0, "WDO", cvd["WDO"])} :
       \E st2 \in {CheckFlowDirection(st1, "DOL", cvd["DOL"])} :
          /\ breakers' = st2.rs.breakers
          /\ signal_timestamps' = st2.rs.signal_timestamps
          /\ active_signals' = st2.rs.active_signals
          /\ bus' = st2.events
          /\ current_books' = st2.current_books
          /\ flow_direction' = st2.flow_direction
          /\ last_flow_alert' = st2.last_flow_alert
          /\ last_emission' = st2.last_emission
          /\ defended' = st2.defended
          /\ pending_evictions' = st2.pending_evictions
          /\ UNCHANGED <<last_pattern_time, pending_patterns, last_confirmation_check,
                         pattern_detected>>
          /\ UNCHANGED <<now, metrics, current_market_regime,
                         regime_adjustment_factors, current_limits,
                         last_daily_reset, trade_log, s4_at>>
          /\ UNCHANGED extVars

\* evaluate_signal, steps 1 to 5, run by thread t: the breakers are checked,
\* the active count, the timestamps and the metrics are read and the verdict
\* is reached; a rejection is published at once.  No lock is taken.
EvaluateSignalDecide(t, sig) ==
    LET outcome == EvaluateSignalOutcome(sig, RiskStateNow)
    IN /\ thread_pc[t] = "idle"
       /\ Len(signal_timestamps.all) < ThreadMaxSignals
       /\ breakers' = CheckAllBreakers(breakers, now)
       /\ IF outcome = "approved"
          THEN /\ thread_pc' = [thread_pc EXCEPT ![t] = "approved"]
               /\ thread_local' = [thread_local EXCEPT ![t] =
                                      [NoLocals EXCEPT !.signal = sig]]
               /\ bus' = <<>>
          ELSE /\ bus' = <<Event("SIGNAL_REJECTED", sig, outcome)>>
               /\ UNCHANGED threadVars
       /\ UNCHANGED <<now, metrics, signal_timestamps, active_signals,
                      current_market_regime, regime_adjustment_factors,
                      current_limits, last_daily_reset, trade_log, s4_at>>
       /\ UNCHANGED <<tapeVars, cacheVars, busVars, persistVars, analysisVars>>

\* evaluate_signal, step 6, run by thread t: record_signal_approval and the
\* publication of the approval
EvaluateSignalRecord(t) ==
    LET sig == thread_local[t].signal
    IN /\ thread_pc[t] = "approved"
       /\ signal_timestamps' = RecordTimestamps(signal_timestamps, sig, now)
       /\ active_signals' = RecordActive(active_signals, sig, now)
       /\ bus' = <<Event("SIGNAL_APPROVED", sig, "approved")>>
       /\ thread_pc' = [thread_pc EXCEPT ![t] = "idle"]
       /\ thread_local' = [thread_local EXCEPT ![t] = NoLocals]
       /\ UNCHANGED <<now, breakers, metrics, current_market_regime,
                      regime_adjustment_factors, current_limits,
                      last_daily_reset, trade_log, s4_at>>
       /\ UNCHANGED <<tapeVars, cacheVars, busVars, persistVars, analysisVars>>

\* cleanup_expired_signals run by thread t: the loop over
\* active_signals.items() starts
CleanupIterate(t) ==
    /\ thread_pc[t] = "idle"
    /\ thread_pc' = [thread_pc EXCEPT ![t] = "iterating"]
    /\ thread_local' = [thread_local EXCEPT ![t] =
                           [NoLocals EXCEPT !.seen = active_signals]]
    /\ bus' = <<>>
    /\ UNCHANGED <<now, breakers, metrics, signal_timestamps, active_signals,
                   current_market_regime, regime_adjustment_factors,
                   current_limits, last_daily_reset, trade_log, s4_at>>
    /\ UNCHANGED <<tapeVars, cacheVars, busVars, persistVars, analysisVars>>

\* cleanup_expired_signals run by thread t: the loop ends and the expired
\* entries are deleted.  A dict that changed size under the loop makes the
\* next step of its iterator raise RuntimeError, unless the loop had already
\* taken its last entry.
CleanupDelete(t) ==
    /\ thread_pc[t] = "iterating"
    /\ \E raised \in {FALSE,
                      Cardinality(active_signals) # Cardinality(thread_local[t].seen)} :
          /\ active_signals' =
                 IF raised THEN active_signals
                 ELSE CleanupExpiredSignals(active_signals,
                                            current_limits.signal_timeout, now)
          /\ thread_local' = [thread_local EXCEPT ![t] =
                                 [NoLocals EXCEPT !.raised = raised]]
    /\ thread_pc' = [thread_pc EXCEPT ![t] = "idle"]
    /\ bus' = <<>>
    /\ UNCHANGED <<now, breakers, metrics, signal_timestamps,
                   current_market_regime, regime_adjustment_factors,
                   current_limits, last_daily_reset, trade_log, s4_at>>
    /\ UNCHANGED <<tapeVars, cacheVars, busVars, persistVars, analysisVars>>

\* process_new_trades, its cache part: the new trades of a snapshot are
\* organized by symbol and added to the cache
CacheNewTrades(trades) ==
    LET o == OrganizeTradesBySymbol(trades,
                 [by_symbol |-> [s \in Symbols |-> <<>>], ids |-> processed_trade_ids])
        c0 == [cache |-> cache, max_size |-> cache_max_size, stats |-> cache_stats]
        c1 == AddTrades(c0, "WDO", o.by_symbol["WDO"])
        c2 == AddTrades(c1, "DOL", o.by_symbol["DOL"])
    IN /\ running
       /\ trades # <<>>
       /\ cache_stats.additions < CacheMaxAdditions
       /\ \A s \in Symbols : Cardinality(o.ids[s]) <= ProcessedIdsLimit
       /\ processed_trade_ids' = o.ids
       /\ cache' = c2.cache
       /\ cache_stats' = c2.stats
       /\ bus' = <<>>
       /\ UNCHANGED <<running, cache_max_size>>
       /\ UNCHANGED <<now, breakers, metrics, signal_timestamps, active_signals,
                      current_market_regime, regime_adjustment_factors,
                      current_limits, last_daily_reset, trade_log, s4_at>>
       /\ UNCHANGED <<tapeVars, threadVars, busVars, persistVars, analysisVars>>

\* the main loop catches MemoryError: _handle_memory_error halves the
\* capacity of the cache and publishes MEMORY_EMERGENCY, and the loop ends
HandleMemoryError ==
    /\ running
    /\ cache_max_size' = cache_max_size \div 2
    /\ running' = FALSE
    /\ bus' = <<Event("MEMORY_EMERGENCY", NoSignal, "emergency_cleanup")>>
    /\ UNCHANGED <<cache, cache_stats, processed_trade_ids>>
    /\ UNCHANGED <<now, breakers, metrics, signal_timestamps, active_signals,
                   current_market_regime, regime_adjustment_factors,
                   current_limits, last_daily_reset, trade_log, s4_at>>
    /\ UNCHANGED <<tapeVars, threadVars, busVars, persistVars, analysisVars>>

\* subscribe(event_type, handler), called outside a dispatch
Subscribe(topic, handler) ==
    /\ ~dispatch.active
    /\ Len(handlers[topic]) < BusMaxHandlers
    /\ handlers' = [handlers EXCEPT ![topic] = SubscribeTo(@, handler)]
    /\ UNCHANGED <<dispatch, riskVars, tapeVars, threadVars, cacheVars, persistVars,
                   analysisVars>>

\* unsubscribe(event_type, handler), called outside a dispatch
Unsubscribe(topic, handler) ==
    /\ ~dispatch.active
    /\ handlers' = [handlers EXCEPT ![topic] = UnsubscribeFrom(@, handler)]
    /\ UNCHANGED <<dispatch, riskVars, tapeVars, threadVars, cacheVars, persistVars,
                   analysisVars>>

\* publish(event_type, data): the for loop over self.handlers[event_type] starts
Publish(topic) ==
    /\ ~dispatch.active
    /\ dispatch' = [active |-> TRUE, topic |-> topic, index |-> 1,
                    begun |-> handlers[topic], invoked |-> <<>>, raised |-> <<>>]
    /\ UNCHANGED <<handlers, riskVars, tapeVars, threadVars, cacheVars, persistVars,
                   analysisVars>>

\* publish: the loop takes the handler at its position in the list as it is
\* now and calls it; the handler runs body
CallHandler(body) ==
    LET hs == handlers[dispatch.topic]
    IN /\ dispatch.active
       /\ dispatch.index <= Len(hs)
       /\ body.call = "subscribe" => Len(hs) < BusMaxHandlers
       /\ handlers' = [handlers EXCEPT ![dispatch.topic] = AfterBody(hs, body)]
       /\ dispatch' = [dispatch EXCEPT
              !.invoked = Append(@, hs[dispatch.index]),
              !.raised = Append(@, body.raises),
              !.index = NextHandler(@, body.raises, Len(AfterBody(hs, body)))]
       /\ UNCHANGED <<riskVars, tapeVars, threadVars, cacheVars, persistVars,
                   analysisVars>>

\* publish: the loop is past the end of the list and publish returns
PublishReturns ==
    /\ dispatch.active
    /\ dispatch.index > Len(handlers[dispatch.topic])
    /\ dispatch' = [dispatch EXCEPT !.active = FALSE]
    /\ UNCHANGED <<handlers, riskVars, tapeVars, threadVars, cacheVars, persistVars,
                   analysisVars>>

\* save(signal), on the main thread: under the lock the entry is appended
\* to the buffer and counted; the entry is named by its count
Save ==
    /\ flushers["maintenance"].pc = "idle"
    /\ save_counters < PersistMaxRecords
    /\ buffers' = Append(buffers, save_counters + 1)
    /\ save_counters' = save_counters + 1
    /\ UNCHANGED <<log_file, flushers>>
    /\ UNCHANGED <<riskVars, tapeVars, threadVars, cacheVars, busVars,
                   analysisVars>>

\* flush run by f: a buffer that is not empty is drained under the lock
FlushDrain(f) ==
    /\ flushers[f].pc = "idle"
    /\ buffers # <<>>
    /\ flushers' = [flushers EXCEPT ![f] =
                       [pc |-> "writing", items_to_write |-> buffers]]
    /\ buffers' = <<>>
    /\ UNCHANGED <<save_counters, log_file>>
    /\ UNCHANGED <<riskVars, tapeVars, threadVars, cacheVars, busVars,
                   analysisVars>>

\* flush run by f: _write_batch_append writes the drained batch outside the
\* lock; the write succeeds or raises after written items, which is logged,
\* and the batch is dropped either way
FlushWrite(f, written) ==
    /\ flushers[f].pc = "writing"
    /\ written \in 0..Len(flushers[f].items_to_write)
    /\ log_file' = WriteBatchAppend(log_file, flushers[f].items_to_write, written)
    /\ flushers' = [flushers EXCEPT ![f] = NotFlushing]
    /\ UNCHANGED <<buffers, save_counters>>
    /\ UNCHANGED <<riskVars, tapeVars, threadVars, cacheVars, busVars,
                   analysisVars>>

\* CalculatedMarketAnalyzer.__init__ builds the matrix from the configuration
NewConfluenceMatrix(rules) ==
    /\ matrix_rules' = rules
    /\ confluence_call' = NoConfluenceCall
    /\ UNCHANGED <<coreVars, defensiveVars, dedupVars, confirmVars>>

\* handle_pattern_detected: the confluence signal of a detection is handed to
\* risk.validate_signal, which RiskManager does not have; the AttributeError
\* is caught and logged, and nothing is published
HandlePatternDetected(details, time_of_day) ==
    LET confluence_signal ==
            HandlersAnalyzeConfluence(matrix_rules, details, time_of_day)
    IN /\ confluence_call' =
              [made |-> TRUE, details |-> details,
               time_of_day |-> time_of_day, returned |-> confluence_signal,
               published |-> FALSE]
       /\ UNCHANGED matrix_rules
       /\ UNCHANGED <<coreVars, defensiveVars, dedupVars, confirmVars>>

\* handle_market_data, for one signal the tape reading returned: the
\* confluence signal is published in its place when there is one
PublishAnalyzed(details, time_of_day) ==
    LET confluence_signal ==
            HandlersAnalyzeConfluence(matrix_rules, details, time_of_day)
    IN /\ confluence_call' =
              [made |-> TRUE, details |-> details,
               time_of_day |-> time_of_day, returned |-> confluence_signal,
               published |-> TRUE]
       /\ UNCHANGED matrix_rules
       /\ UNCHANGED <<coreVars, defensiveVars, dedupVars, confirmVars>>

\* DefensiveSignalFilter.is_signal_safe on the book of a candidate
IsSignalSafeCall(book) ==
    /\ defensive_call' = [made |-> TRUE, book |-> book,
                          layering |-> CheckLayering(book),
                          safe |-> IsSignalSafe(book)]
    /\ UNCHANGED <<coreVars, confluenceVars, dedupVars, confirmVars>>

\* handle_market_data on a snapshot that shows arrived more WDO trades than
\* the one before: _get_new_trades filters the trades of the snapshot, and
\* process_new_trades organizes the new ones, adds them to the cache and
\* hands them to the analyzers
HandleSnapshot(arrived, handler_order, service_order) ==
    /\ sheet_trades + arrived <= DedupMaxTrades
    /\ \E g \in {GetNewTrades(SnapshotOf(sheet_trades + arrived),
                              processed_trades, handler_order)} :
       \E o \in {OrganizeWdo(g.new, organized_trade_ids, service_order)} :
          LET labels == {o.new[i].time_str : i \in 1..Len(o.new)}
          IN /\ processed_trades' = g.ids
             /\ organized_trade_ids' = o.ids
             /\ fed' = fed \cup labels
             /\ fed_again' = fed_again \cup (fed \cap labels)
    /\ sheet_trades' = sheet_trades + arrived
    /\ UNCHANGED <<coreVars, confluenceVars, defensiveVars, confirmVars>>

\* TapeReadingService.__init__ with signal_quality_threshold configured
NewTapeReadingService(min_quality_score) ==
    /\ now = 0 /\ cached_trades = <<>> /\ published = <<>>
    /\ quality_min_score' = min_quality_score
    /\ UNCHANGED <<cached_trades, raw_detections, pending_confirmations,
                   confirmation_checked_at, confirmation_stamps, nearby_levels,
                   last_level_alert, published>>
    /\ UNCHANGED <<coreVars, confluenceVars, defensiveVars, dedupVars>>

\* handle_market_data on a snapshot of WDO: the book is updated, the last
\* price is compared with the levels, and process_new_trades adds the new
\* trades to the cache, checks the pending patterns when the interval has
\* passed, and holds the detections of the analyzers for confirmation
HandleWdoData(new_trades, raw_signals, book, last_price) ==
    /\ Len(cached_trades) + Len(new_trades) <= ConfirmMaxTrades
    /\ raw_signals # <<>> => new_trades # <<>>
    /\ Len(raw_detections) + Len(raw_signals) <= ConfirmMaxDetections
    /\ LET proximity == CheckLevelProximity(nearby_levels, last_level_alert,
                                            last_price, now)
           trades == cached_trades \o new_trades
           due == /\ new_trades # <<>>
                  /\ now - confirmation_checked_at >= CheckInterval
           checked == IF due
                      THEN CheckPendingConfirmations(pending_confirmations,
                               confirmation_stamps, book, trades, now)
                      ELSE [pending |-> pending_confirmations,
                            stamps |-> confirmation_stamps, events |-> <<>>]
           held == HoldRawSignals([pending |-> checked.pending, events |-> <<>>],
                                  raw_signals, quality_min_score, now, Len(trades))
       IN /\ nearby_levels' = proximity.nearby
          /\ last_level_alert' = proximity.alert_at
          /\ cached_trades' = trades
          /\ raw_detections' = raw_detections \o
                 [i \in 1..Len(raw_signals) |->
                     [data |-> raw_signals[i], cached_at |-> Len(trades)]]
          /\ confirmation_checked_at' =
                 IF due THEN now ELSE confirmation_checked_at
          /\ confirmation_stamps' = checked.stamps
          /\ pending_confirmations' = held.pending
          /\ published' = published \o proximity.events \o checked.events
                              \o held.events
    /\ UNCHANGED quality_min_score
    /\ UNCHANGED <<coreVars, confluenceVars, defensiveVars, dedupVars>>

-----------------------------------------------------------------------------
(* Specifications *)

\* the gates of evaluate_signal under regime changes
NextGate ==
    \/ \E sig \in GateSignals : SignalGenerated(sig, GateMaxSignals)
    \/ MarketDataUpdated
    \/ \E symbol \in Symbols, r \in GateRegimes : RegimeChange(symbol, r)
    \/ DailyReset
    \/ Tick(GateGrid)

SpecGate == InitRisk /\ [][NextGate]_vars

\* the circuit breakers over more than a day
NextBreaker ==
    \/ \E sig \in BreakerSignals : SignalGenerated(sig, BreakerMaxSignals)
    \/ \E pnl \in PnlInputs : TradeClosed(pnl, BreakerMaxTrades)
    \/ MarketDataUpdated
    \/ \E r \in BreakerRegimes : RegimeChange("WDO", r)
    \/ DailyReset
    \/ Tick(BreakerGrid)

SpecBreaker == InitRisk /\ [][NextBreaker]_vars

\* scenario S4: closed trades, then candidates
NextS4 ==
    \/ \E sig \in BreakerSignals : SignalGenerated(sig, S4MaxSignals)
    \/ \E pnl \in PnlInputs : TradeClosed(pnl, S4MaxTrades)
    \/ MarketDataUpdated
    \/ DailyReset
    \/ Tick(S4Grid)

SpecS4 == InitRisk /\ [][NextS4]_vars

\* the tape-reading pipeline in front of the risk manager
NextTape ==
    \/ \E u \in TapeUpdates : MarketData(u.books, u.cvd, u.raw_signals)
    \/ Tick(TapeGrid)

SpecTape == InitRisk /\ [][NextTape]_vars

\* the tape-reading pipeline when some updates bring no new trade
NextTapeQuiet ==
    \/ \E u \in BusyUpdates : MarketData(u.books, u.cvd, u.raw_signals)
    \/ \E u \in QuietUpdates : MarketDataQuiet(u.books, u.cvd)
    \/ Tick(TapeGrid)

SpecTapeQuiet == InitRisk /\ [][NextTapeQuiet]_vars

\* two threads calling the risk manager
NextRiskThreads ==
    \/ \E t \in Threads, sig \in ThreadSignals : EvaluateSignalDecide(t, sig)
    \/ \E t \in Threads : EvaluateSignalRecord(t)
    \/ \E t \in Threads : CleanupIterate(t)
    \/ \E t \in Threads : CleanupDelete(t)
    \/ Tick(ThreadGrid)

SpecRiskThreads == InitRisk /\ [][NextRiskThreads]_vars

\* the trade cache under snapshots and the memory emergency
NextCache ==
    \/ \E trades \in Snapshots : CacheNewTrades(trades)
    \/ HandleMemoryError

SpecCache == InitRisk /\ [][NextCache]_vars

\* the event bus with handlers that return or raise
NextBus ==
    \/ \E topic \in BusTopics, h \in BusHandlers : Subscribe(topic, h)
    \/ \E topic \in BusTopics, h \in BusHandlers : Unsubscribe(topic, h)
    \/ \E topic \in BusTopics : Publish(topic)
    \/ \E body \in PlainBodies : CallHandler(body)
    \/ PublishReturns

SpecBus == InitRisk /\ [][NextBus]_vars

\* the event bus with handlers that also subscribe and unsubscribe
NextBusReentrant ==
    \/ \E topic \in BusTopics, h \in BusHandlers : Subscribe(topic, h)
    \/ \E topic \in BusTopics, h \in BusHandlers : Unsubscribe(topic, h)
    \/ \E topic \in BusTopics : Publish(topic)
    \/ \E body \in ReentrantBodies : CallHandler(body)
    \/ PublishReturns

SpecBusReentrant == InitRisk /\ [][NextBusReentrant]_vars

\* saves and the two callers of flush
NextPersist ==
    \/ Save
    \/ \E f \in Flushers : FlushDrain(f)
    \/ \E f \in Flushers, written \in 0..PersistMaxRecords : FlushWrite(f, written)

SpecPersist == InitRisk /\ [][NextPersist]_vars

\* the confluence analysis of detections, under the default matrix and
\* under configured ones
ConfluenceInputs ==
    {TapeDetails("WDO", p, price, v, d) :
         p \in ConfluencePatterns, price \in ConfluencePrices,
         v \in ConfluenceVolumes, d \in {"COMPRA", "VENDA"}}

NextConfluence ==
    \/ \E rules \in {DefaultRules}
           \cup {ConfiguredRules(c) : c \in ConfluenceConfidences} :
           NewConfluenceMatrix(rules)
    \/ \E details \in ConfluenceInputs, t \in ConfluenceTimes :
           HandlePatternDetected(details, t)
    \/ \E details \in ConfluenceInputs, t \in ConfluenceTimes :
           PublishAnalyzed(details, t)

SpecConfluence == InitRisk /\ [][NextConfluence]_vars

\* regime changes of the two instruments, over every regime
NextRegime ==
    \/ \E symbol \in Symbols, r \in Regimes : RegimeChange(symbol, r)
    \/ Tick(ThreadGrid)

SpecRegime == InitRisk /\ [][NextRegime]_vars

\* the defensive filter on the books of a run
NextDefensive == \E book \in LayeringBooks : IsSignalSafeCall(book)

SpecDefensive == InitRisk /\ [][NextDefensive]_vars

\* overlapping snapshots of the WDO trades of the sheet
SnapshotArrivals == {4, 6, 10}

NextDedup ==
    \E arrived \in SnapshotArrivals, handler_order \in HashOrders,
       service_order \in HashOrders :
        HandleSnapshot(arrived, handler_order, service_order)

SpecDedup == InitRisk /\ [][NextDedup]_vars

\* the confirming pipeline on the snapshots of a run
NextConfirm ==
    \/ \E q \in ConfirmQualities : NewTapeReadingService(q)
    \/ \E new_trades \in {<<>>} \cup {<<x>> : x \in ConfirmTrades},
          raw_signals \in {<<>>} \cup {<<d>> : d \in ConfirmDetections},
          book \in ConfirmBooks :
           HandleWdoData(new_trades, raw_signals, book,
                         LastPrice(cached_trades \o new_trades))
    \/ Tick(ConfirmGrid)

SpecConfirm == InitRisk /\ [][NextConfirm]_vars

-----------------------------------------------------------------------------
(* Reading the events of the last handler *)

Published(b, topic) == \E i \in 1..Len(b) : b[i].topic = topic

RejectedFor(b, reason) ==
    \E i \in 1..Len(b) : b[i].topic = "SIGNAL_REJECTED" /\ b[i].reason = reason

\* the breaker is active and less than its cooldown has passed on the clock
InCooldown(state, t) ==
    /\ state.active
    /\ state.triggered_at # NoTime
    /\ t - state.triggered_at < state.cooldown_seconds

\* the breaker is active and its cooldown has passed on the clock
PastCooldown(state, t) ==
    /\ state.active
    /\ state.triggered_at # NoTime
    /\ t - state.triggered_at >= state.cooldown_seconds

-----------------------------------------------------------------------------
(* Circuit breakers *)

\* C1 (breaker law): a signal evaluated while some breaker is active and within
\* its cooldown is rejected, and no SIGNAL_APPROVED is published for it.
BreakerLaw ==
    [][((\E name \in BreakerNames : InCooldown(breakers[name], now))
        /\ Published(bus', "SIGNAL_GENERATED"))
       => (~Published(bus', "SIGNAL_APPROVED")
           /\ RejectedFor(bus', "circuit_breaker"))]_vars

\* a signal has just been rejected by a breaker that is within its cooldown
BreakerLawWitness ==
    /\ RejectedFor(bus, "circuit_breaker")
    /\ \E name \in BreakerNames : InCooldown(breakers[name], now)

\* C9 (breaker auto-reset): when every active breaker's cooldown has fully
\* elapsed, the next check resets them all and the evaluated signal is not
\* rejected by a circuit breaker, however long ago they were triggered.
BreakerAutoReset ==
    [][((\A name \in GetActiveBreakers(breakers) : PastCooldown(breakers[name], now))
        /\ GetActiveBreakers(breakers) # {}
        /\ Published(bus', "SIGNAL_GENERATED"))
       => (~RejectedFor(bus', "circuit_breaker")
           /\ GetActiveBreakers(breakers') = {})]_vars

-----------------------------------------------------------------------------
(* Scenario S4 *)

\* C10 (scenario S4): from a fresh system, once five closed trades of PnL -200
\* have been reported, and for circuit_breaker_cooldown seconds after the fifth,
\* the consecutive_losses breaker is active and no SIGNAL_APPROVED is published.
S4BreakerHolds ==
    (s4_at # NoTime /\ now - s4_at < CircuitBreakerCooldown)
        => (breakers["consecutive_losses"].active
            /\ ~Published(bus, "SIGNAL_APPROVED"))

\* a candidate was rejected by the breakers late in the cooldown after S4
S4BreakerHoldsWitness ==
    /\ s4_at # NoTime
    /\ now > s4_at
    /\ now - s4_at < CircuitBreakerCooldown
    /\ RejectedFor(bus, "circuit_breaker")

-----------------------------------------------------------------------------
(* The gates of evaluate_signal *)

\* C4 (signal sink): display.add_signal and signal_repo.save are invoked for a
\* signal only if the risk manager approved it.
SinkOnlyIfApproved ==
    (Published(bus, "display.add_signal") \/ Published(bus, "signal_repo.save"))
        => Published(bus, "SIGNAL_APPROVED")

\* C5 (quality law): a signal for which SIGNAL_APPROVED is published has a
\* normalized quality score no lower than the regime-adjusted threshold in force.
QualityLaw ==
    \A i \in 1..Len(bus) :
        bus[i].topic = "SIGNAL_APPROVED"
            => NormalizedScore(bus[i].signal) >= current_limits.quality_threshold

\* a signal was rejected for quality under a threshold the regime had raised,
\* though its score reaches the configured threshold
QualityLawWitness ==
    /\ current_limits.quality_threshold > BaseQualityThreshold * One
    /\ RejectedFor(bus, "quality")
    /\ NormalizedScore(bus[1].signal) >= BaseQualityThreshold * One

\* the approved signals that have not timed out
LiveSignals == {a \in active_signals : now <= a.timeout}

RollingCount(q, window) ==
    Cardinality({i \in 1..Len(q) : now - q[i] < window})

\* the evaluated signal got as far as the frequency gate
ReachedFrequencyGate(b) ==
    /\ Published(b, "SIGNAL_GENERATED")
    /\ ~RejectedFor(b, "circuit_breaker")
    /\ ~RejectedFor(b, "exposure")

\* C7 as stated (frequency gate): a signal is rejected for frequency only when
\* the count over the last minute exceeds max_signals_per_minute or the count
\* over the last hour exceeds max_signals_per_hour.
FrequencyGateExceeds ==
    [][RejectedFor(bus', "frequency")
       => (\/ RollingCount(signal_timestamps.all, SecondsPerMinute)
                  > current_limits.max_signals_per_minute
           \/ RollingCount(signal_timestamps.all, SecondsPerHour)
                  > current_limits.max_signals_per_hour)]_vars

\* C7, amended: a signal that gets as far as the frequency gate is rejected
\* there exactly when the count over the last minute has reached
\* max_signals_per_minute, or the count over the last hour has reached
\* max_signals_per_hour, or it is a confluence signal and the confluence
\* approvals of the last hour have reached max_confluence_per_hour.
FrequencyGate ==
    [][ReachedFrequencyGate(bus')
       => (RejectedFor(bus', "frequency")
           <=> (\/ RollingCount(signal_timestamps.all, SecondsPerMinute)
                       >= current_limits.max_signals_per_minute
                \/ RollingCount(signal_timestamps.all, SecondsPerHour)
                       >= current_limits.max_signals_per_hour
                \/ /\ bus'[1].signal.source = "CONFLUENCE"
                   /\ RollingCount(signal_timestamps.confluence, SecondsPerHour)
                          >= current_limits.max_confluence_per_hour))]_vars

\* a signal was rejected with the minute count equal to the limit, no more
FrequencyGateWitness ==
    /\ RejectedFor(bus, "frequency")
    /\ current_limits.max_signals_per_minute > 0
    /\ RollingCount(signal_timestamps.all, SecondsPerMinute)
           = current_limits.max_signals_per_minute

\* C8 (signal timeout): after a cleanup, no approved signal is left in the
\* active-signal map for which more than the current, regime-adjusted
\* signal_timeout has elapsed since its approval.
TimeoutCleanup ==
    Published(bus, "MARKET_DATA_UPDATED")
        => \A a \in active_signals :
               ~(now - a.timestamp > current_limits.signal_timeout)


-----------------------------------------------------------------------------
(* Tape-reading pipeline *)

\* the tags candidates carry past the defensive filter
CarriedTags == TapePatterns \cup {ConfirmedTag(p) : p \in TapePatterns}

\* how many events of b on the topic carry the tag for the symbol
CarryingTag(b, topic, symbol, tag) ==
    Cardinality({i \in 1..Len(b) :
                    /\ b[i].topic = topic
                    /\ b[i].signal.symbol = symbol
                    /\ b[i].signal.pattern = tag})

\* how many candidates with the tag for the symbol the defensive filter saw
Defended(symbol, tag) ==
    Cardinality({i \in 1..Len(defended) : defended[i] = <<symbol, tag>>})

\* the distance between the last two SIGNAL_GENERATED events carrying the
\* pattern (confirmed or not) for the symbol is at least gap
SpacedBy(symbol, pattern, gap) ==
    last_emission[symbol][pattern].gap # NoTime
        => last_emission[symbol][pattern].gap >= gap

\* C2 (cooldown law), as stated: for every instrument and pattern, two
\* successive SIGNAL_GENERATED events carrying the pattern for the instrument
\* are at least the pattern's configured cooldown apart, whichever path
\* published them.
CooldownLaw ==
    \A symbol \in Symbols, pattern \in EmittedPatterns :
        SpacedBy(symbol, pattern, CooldownSeconds(pattern))

\* C2 (cooldown law), amended: for the patterns that pass the tape service's
\* cooldown filter, two successive SIGNAL_GENERATED events carrying the pattern
\* or its confirmed tag for an instrument, converted to confluence signals or
\* not, are at least the pattern's configured cooldown apart; flow-reversal
\* alerts are spaced by their own fixed 20 seconds instead.
CooldownLawTape ==
    /\ \A symbol \in Symbols, pattern \in TapePatterns :
           SpacedBy(symbol, pattern, CooldownSeconds(pattern))
    /\ \A symbol \in Symbols : SpacedBy(symbol, "FLOW_REVERSAL", FlowAlertCooldown)

\* a pressure signal has just been published as a confluence signal exactly
\* one cooldown after the previous pressure signal of the instrument
CooldownLawTapeWitness ==
    /\ \E i \in 1..Len(bus) :
           /\ bus[i].topic = "SIGNAL_GENERATED"
           /\ bus[i].signal.source = "CONFLUENCE"
           /\ bus[i].signal.symbol = "WDO"
           /\ bus[i].signal.pattern = "PRESSAO_COMPRA"
    /\ last_emission["WDO"]["PRESSAO_COMPRA"] =
           [at |-> now, gap |-> PressaoCompraCooldown]

\* C3 (exclusivity): a candidate that reaches the defensive filter yields one
\* SIGNAL_GENERATED or one MANIPULATION_DETECTED or nothing, never both and
\* never one of them twice.
Exclusivity ==
    \A symbol \in Symbols, tag \in CarriedTags :
        Defended(symbol, tag) >= 1
            => CarryingTag(bus, "SIGNAL_GENERATED", symbol, tag)
                   + CarryingTag(bus, "MANIPULATION_DETECTED", symbol, tag)
               <= Defended(symbol, tag)

\* a confirmed momentum pattern met a layered book: one MANIPULATION_DETECTED
\* and no SIGNAL_GENERATED
ExclusivityWitness ==
    /\ Defended("WDO", ConfirmedTag("MOMENTUM_EXTREMO")) = 1
    /\ CarryingTag(bus, "MANIPULATION_DETECTED", "WDO",
                   ConfirmedTag("MOMENTUM_EXTREMO")) = 1
    /\ CarryingTag(bus, "SIGNAL_GENERATED", "WDO",
                   ConfirmedTag("MOMENTUM_EXTREMO")) = 0

-----------------------------------------------------------------------------
(* Threads in the risk manager *)

\* the slots left under the concurrent-signal limit
SlotsLeft == current_limits.max_concurrent_signals - Cardinality(active_signals)

\* C11: calls of the risk manager exclude one another: two threads are never
\* both past the exposure check of evaluate_signal while a single slot is
\* left, and the active-signal map is never changed under a thread that is
\* iterating over it in cleanup_expired_signals.
RiskManagerExclusion ==
    /\ ~(\E t1, t2 \in Threads :
            /\ t1 # t2
            /\ thread_pc[t1] = "approved"
            /\ thread_pc[t2] = "approved"
            /\ SlotsLeft = 1)
    /\ \A t \in Threads :
          thread_pc[t] = "iterating" => active_signals = thread_local[t].seen

-----------------------------------------------------------------------------
(* Trade cache *)

\* the trades cached over all symbols
TotalCached ==
    GetSize(cache, "WDO") + GetSize(cache, "DOL")

NonDecreasing(trades) ==
    \A i \in 1..(Len(trades) - 1) : trades[i].timestamp <= trades[i + 1].timestamp

\* C12: for every symbol the number of cached trades is at most the current
\* capacity max_size, also after the memory emergency has halved it.
RingBufferBound ==
    \A s \in Symbols : GetSize(cache, s) <= cache_max_size

\* C13: for every symbol and count, get_recent_trades returns trades in
\* non-decreasing order of timestamp, whatever the order in which snapshots
\* delivered them.
RecentMonotonic ==
    \A s \in Symbols : \A n \in 0..CacheMaxAdditions :
        NonDecreasing(GetRecentTrades(cache, s, n))

\* C14: after any sequence of batches added with no clear, the eviction
\* counter equals the additions minus the trades cached.
EvictionAccounting ==
    cache_stats.evictions = cache_stats.additions - TotalCached

-----------------------------------------------------------------------------
(* Event bus *)

\* the publish call has returned
Dispatched == ~dispatch.active /\ dispatch.topic # ""

\* how many times handler h occurs in a list
Occurrences(hs, h) == Cardinality({i \in 1..Len(hs) : hs[i] = h})

\* C15: publish calls the handlers of the topic in subscription order before
\* it returns, and a handler that raises does not keep the handlers after it
\* from being called: the calls made so far are the first handlers of the
\* list, and all of them when publish has returned.
PublishDelivers ==
    /\ dispatch.active =>
           /\ Len(dispatch.invoked) = dispatch.index - 1
           /\ dispatch.invoked = SubSeq(dispatch.begun, 1, Len(dispatch.invoked))
    /\ Dispatched => dispatch.invoked = dispatch.begun

\* publish has returned after a handler raised before the last one was called
PublishDeliversWitness ==
    /\ Dispatched
    /\ Len(dispatch.begun) = BusMaxHandlers
    /\ dispatch.raised[1]
    /\ ~dispatch.raised[BusMaxHandlers]
    /\ dispatch.invoked[1] # dispatch.invoked[2]

\* C16: the handler list of a dispatch is fixed when publish begins: when
\* publish returns, every handler then subscribed has been called exactly as
\* often as it was subscribed and no other handler has been called, whatever
\* the handlers subscribed or unsubscribed meanwhile.
DispatchImmutable ==
    Dispatched =>
        \A h \in BusHandlers :
            Occurrences(dispatch.invoked, h) = Occurrences(dispatch.begun, h)

-----------------------------------------------------------------------------
(* Persistence *)

\* how many times record r occurs in a sequence
Copies(q, r) == Cardinality({i \in 1..Len(q) : q[i] = r})

\* the copies of record r still on their way to the file
Unwritten(r) ==
    Copies(buffers, r)
      + Copies(flushers["writer_thread"].items_to_write, r)
      + Copies(flushers["maintenance"].items_to_write, r)

\* C17: every record accepted by save is written to the log file exactly
\* once: it is never in the file twice, and it is in the file once as soon as
\* it is neither buffered nor in the batch of a running flush, under every
\* interleaving of saves and flushes and also when a batch write fails.
SavedExactlyOnce ==
    \A r \in 1..save_counters :
        /\ Copies(log_file, r) <= 1
        /\ Copies(log_file, r) + Unwritten(r) = 1

-----------------------------------------------------------------------------
(* Pending patterns *)

\* the last step was a market-data update
HandledMarketData == bus # <<>> /\ bus[1].topic = "MARKET_DATA_UPDATED"

\* C18: once a pending pattern's expires_at has passed, a market-data update,
\* with or without new trades, leaves it neither in the pending map nor
\* confirmed and emitted.
PendingDeadline ==
    [][HandledMarketData' =>
          /\ \A i \in 1..Len(pending_patterns') :
                 ~(now' > pending_patterns'[i].expires_at)
          /\ \A s \in Symbols, pattern \in ConfirmationPatterns :
                 Defended(s, ConfirmedTag(pattern))' > 0 =>
                     \E i \in 1..Len(pending_patterns) :
                         /\ pending_patterns[i].symbol = s
                         /\ pending_patterns[i].pattern = pattern
                         /\ ~(now' > pending_patterns[i].expires_at)]_vars

\* the list without its element at position i
Without(q, i) == SubSeq(q, 1, i - 1) \o SubSeq(q, i + 1, Len(q))

\* C19: the pending map never holds more than max_pending entries, and an
\* entry removed to make room for a new one had the oldest creation time of
\* the map.
PendingBound ==
    /\ Len(pending_patterns) <= MaxPending
    /\ \A k \in 1..Len(pending_evictions) :
           LET e == pending_evictions[k]
           IN \E i \in 1..Len(e.had) :
                  /\ e.kept = Without(e.had, i)
                  /\ \A j \in 1..Len(e.had) :
                         e.had[i].created_at <= e.had[j].created_at

\* a full map whose entries were created at different times has made room
PendingBoundWitness ==
    /\ Len(pending_patterns) = MaxPending
    /\ \E k \in 1..Len(pending_evictions) :
           \E i, j \in 1..Len(pending_evictions[k].had) :
               pending_evictions[k].had[i].created_at
                   < pending_evictions[k].had[j].created_at

-----------------------------------------------------------------------------
(* Order of PATTERN_DETECTED and SIGNAL_GENERATED *)

\* event i of b is a SIGNAL_GENERATED that comes from a detector candidate
FromCandidate(b, i) ==
    /\ b[i].topic = "SIGNAL_GENERATED"
    /\ b[i].signal.pattern \in CarriedTags

\* an event before i in b is the PATTERN_DETECTED of the candidate of event i
DetectedBefore(b, i) ==
    \E j \in 1..(i - 1) :
        /\ b[j].topic = "PATTERN_DETECTED"
        /\ b[j].signal.symbol = b[i].signal.symbol
        /\ b[j].signal.pattern = b[i].signal.pattern

\* C20: every SIGNAL_GENERATED that comes from a detector candidate is
\* preceded by the PATTERN_DETECTED of that candidate: earlier in the same
\* update for a candidate emitted at once, in an earlier update for a
\* confirmed one.
PatternDetectedFirst ==
    [][\A i \in 1..Len(bus') :
           FromCandidate(bus', i) =>
               IF bus'[i].signal.pattern \in TapePatterns
               THEN DetectedBefore(bus', i)
               ELSE <<bus'[i].signal.symbol, BasePattern(bus'[i].signal.pattern)>>
                        \in pattern_detected]_vars

\* a tape signal and a confirmed signal have been published after their
\* PATTERN_DETECTED events
PatternDetectedFirstWitness ==
    /\ \E i \in 1..Len(bus) :
           /\ FromCandidate(bus, i)
           /\ bus[i].signal.pattern \in TapePatterns
           /\ DetectedBefore(bus, i)
    /\ \E i \in 1..Len(bus) :
           /\ FromCandidate(bus, i)
           /\ bus[i].signal.pattern = ConfirmedTag("MOMENTUM_EXTREMO")
           /\ <<bus[i].signal.symbol, "MOMENTUM_EXTREMO">> \in pattern_detected

-----------------------------------------------------------------------------
(* Confluence signals *)

\* a CONFLUENCE signal went out on SIGNAL_GENERATED in the last handler
ConfluenceEmitted ==
    /\ confluence_call.made
    /\ confluence_call.published
    /\ confluence_call.returned.present

\* C27: every emitted CONFLUENCE signal has its price within
\* tolerancia_proximidade of the price of its level, a strength of at least
\* 7, and a rule whose confidence, before any PTAX bonus, is at least 0.65
ConfluenceValidity ==
    ConfluenceEmitted =>
        LET s == confluence_call.returned
        IN /\ Abs(s.price - s.level_price) <= ToleranciaProximidade
           /\ s.strength >= MinimumForce
           /\ s.rule_applied.confianca >= MinimumConfidence

\* a CONFLUENCE signal went out at the edge of the tolerance, with a
\* strength of exactly 7 and a configured rule of confidence exactly 0.65
ConfluenceValidityWitness ==
    /\ ConfluenceEmitted
    /\ Abs(confluence_call.returned.price - confluence_call.returned.level_price)
           = ToleranciaProximidade
    /\ confluence_call.returned.rule_applied.confianca = MinimumConfidence
    /\ confluence_call.returned.strength = MinimumForce

\* C28: no CONFLUENCE signal is emitted whose action is opposite to the
\* direction carried by the tape pattern it was derived from
DirectionAgreement ==
    ConfluenceEmitted /\ confluence_call.details.direction # "" =>
        confluence_call.returned.action = confluence_call.details.direction

\* C29, as claimed: in a PTAX window the confidence of an emitted CONFLUENCE
\* signal is at least the confidence of its rule and at most 0.95, for
\* every rule confidence of a configured matrix
PtaxMonotonicAnyRule ==
    ConfluenceEmitted /\ confluence_call.returned.is_ptax_window =>
        /\ confluence_call.returned.confidence
               >= confluence_call.returned.rule_applied.confianca
        /\ confluence_call.returned.confidence <= PtaxCap

\* C29: in a PTAX window the confidence of an emitted CONFLUENCE signal is
\* at most 0.95, and it is at least the confidence of its rule when that
\* confidence is itself at most 0.95; outside a window it is the confidence
\* of the rule
PtaxMonotonic ==
    ConfluenceEmitted =>
        LET s == confluence_call.returned
        IN IF s.is_ptax_window
           THEN /\ s.confidence <= PtaxCap
                /\ s.rule_applied.confianca <= PtaxCap
                       => s.confidence >= s.rule_applied.confianca
           ELSE s.confidence = s.rule_applied.confianca

\* in a PTAX window a CONFLUENCE signal went out whose rule had confidence
\* 0.95 and kept it
PtaxMonotonicWitness ==
    /\ ConfluenceEmitted
    /\ confluence_call.returned.is_ptax_window
    /\ confluence_call.returned.rule_applied.confianca = PtaxCap
    /\ confluence_call.returned.confidence = PtaxCap

-----------------------------------------------------------------------------
(* Regime adjustment *)

\* C30: after any sequence of regime changes of the two instruments, every
\* adaptive factor lies in [0.3, 2.0]
RegimeBounds ==
    \A k \in DOMAIN regime_adjustment_factors :
        /\ regime_adjustment_factors[k] >= 300
        /\ regime_adjustment_factors[k] <= 2000

\* WDO is QUIET and DOL is VOLATILE: the product for the concurrent signals
\* is 0.27 and the one for the quality threshold is 2.145, and the factors
\* that were applied to the limits are 0.3 and 2.0
RegimeBoundsWitness ==
    /\ current_market_regime["WDO"] = "QUIET"
    /\ current_market_regime["DOL"] = "VOLATILE"
    /\ Mul(Mul(Mul(One, 500), 600), 900) < 300
    /\ regime_adjustment_factors.concurrent_signals = 300
    /\ regime_adjustment_factors.quality_threshold = 2000
    /\ current_limits = ApplyRegimeAdjustments(regime_adjustment_factors)

-----------------------------------------------------------------------------
(* Cooldown filter *)

\* C24: a candidate passes the cooldown filter, and so reaches the defensive
\* filter, exactly when no SIGNAL_GENERATED was published yet for its
\* instrument and pattern or the last one is at least the pattern's cooldown
\* old; a candidate that the defensive filter dropped is not an emission
CooldownFilterLaw ==
    [][HandledMarketData' =>
          \A s \in Symbols, p \in TapePatterns \ ConfirmationPatterns :
              CarryingTag(bus', "PATTERN_DETECTED", s, p) = 1 =>
                  ((Defended(s, p)' = 1) <=>
                       \/ last_emission[s][p].at = NoTime
                       \/ now' - last_emission[s][p].at
                              >= CooldownSeconds(p))]_vars

-----------------------------------------------------------------------------
(* Layering *)

\* the levels i..j of the side all hold at least min_volume_per_level and
\* are within uniformity_threshold of their mean
UniformRun(side, i, j) ==
    LET run == SubSeq(side, i, j)
    IN /\ \A k \in 1..Len(run) : run[k] >= LayeringMinVolume
       /\ \A k \in 1..Len(run) :
              100 * Abs(Len(run) * run[k] - Sum(run))
                  <= LayeringUniformityPercent * Sum(run)

\* some run of at least min_levels consecutive levels of the side is uniform
SomeUniformRun(side) ==
    \E i \in 1..Len(side), j \in 1..Len(side) :
        j - i + 1 >= LayeringMinLevels /\ UniformRun(side, i, j)

\* C25, as claimed: the defensive filter reports layering and blocks the
\* candidate whenever some run of at least min_levels consecutive levels on
\* one side of the book is uniform, wherever in the book the run lies, and
\* reports no layering otherwise
LayeringAnywhere ==
    defensive_call.made =>
        LET found == \/ SomeUniformRun(defensive_call.book.bids)
                     \/ SomeUniformRun(defensive_call.book.asks)
        IN /\ defensive_call.layering <=> found
           /\ found => ~defensive_call.safe

\* C25: the defensive filter reports layering exactly when the first
\* min_levels levels of one side of the book, the best prices, are uniform;
\* it then blocks the candidate.  A uniform run that begins deeper in the
\* book is not reported.
LayeringAtTop ==
    defensive_call.made =>
        LET top(side) == /\ Len(side) >= LayeringMinLevels
                         /\ UniformRun(side, 1, LayeringMinLevels)
            found == \/ top(defensive_call.book.bids)
                     \/ top(defensive_call.book.asks)
        IN /\ defensive_call.layering <=> found
           /\ found => ~defensive_call.safe

\* a book whose first four bid levels are uniform at the edge of the
\* threshold was reported and the candidate blocked
LayeringAtTopWitness ==
    /\ defensive_call.made
    /\ defensive_call.book.bids = <<90, 110, 90, 110, 40>>
    /\ defensive_call.layering
    /\ ~defensive_call.safe

-----------------------------------------------------------------------------
(* Deduplication *)

\* C26: a trade that recurs in overlapping snapshots with the same time
\* label, price and volume is added to the cache and handed to the analyzers
\* at most once, however many snapshots and trades were processed
FedAtMostOnce == fed_again = {}

-----------------------------------------------------------------------------
(* Confirmation of pending patterns *)

\* the events published on a topic so far
PublishedOn(topic) == SelectSeq(published, LAMBDA e : e.topic = topic)

\* scenario S1 has been played: one absorption of volume 400 detected at
\* 5500.00, the level DEVENDO, then two trades at 5500.50 of volume 300, all
\* within the timeout, no book under manipulation, nothing left pending
S1Played ==
    /\ raw_detections = <<[data |-> AbsorptionAtDevendo, cached_at |-> 1]>>
    /\ cached_trades = <<SmallTrade, ConfirmingTrade, ConfirmingTrade>>
    /\ now < ConfirmationTimeout
    /\ confirmation_checked_at = now
    /\ pending_confirmations = <<>>
    /\ PublishedOn("MANIPULATION_DETECTED") = <<>>

\* C21: scenario S1 results in exactly one SIGNAL_GENERATED event, and that
\* event has source CONFLUENCE, action BUY, level DEVENDO and confidence of
\* at least 0.85
S1ConfluenceBuy ==
    S1Played =>
        /\ Len(PublishedOn("SIGNAL_GENERATED")) = 1
        /\ LET e == PublishedOn("SIGNAL_GENERATED")[1]
           IN /\ e.source = "CONFLUENCE"
              /\ e.action = "COMPRA"
              /\ e.level = "DEVENDO"
              /\ e.confidence >= 85

\* C22: an absorption is confirmed only after at least min_tests distinct
\* trades that came after its detection, each within 0.5 of the level and of
\* volume at least test_threshold times the original volume
AbsorptionTestedTwice ==
    \A i \in 1..Len(published) :
        published[i].pattern = ConfirmedTag("ESCORA_DETECTADA")
            => published[i].tests_after >= MinTests

\* C23: an institutional footprint is confirmed only when at least
\* min_persistence seconds have passed since its detection
InstitutionalPersisted ==
    \A i \in 1..Len(published) :
        published[i].pattern = ConfirmedTag("INSTITUTIONAL_FOOTPRINT")
            => published[i].at - published[i].created_at >= MinPersistence

-----------------------------------------------------------------------------
(* Scenario S5: one instrument turns volatile *)

\* round() of a number of thousandths: to the nearest integer, halves to even
RoundThousandths(x) ==
    LET whole == x \div One
        rest == x % One
    IN IF rest > 500 THEN whole + 1
       ELSE IF rest < 500 THEN whole
       ELSE IF whole % 2 = 0 THEN whole ELSE whole + 1

\* one instrument is VOLATILE and the other still RANGING, as at the start
OneVolatile ==
    \E s \in Symbols :
        /\ current_market_regime[s] = "VOLATILE"
        /\ \A o \in Symbols \ {s} : current_market_regime[o] = "RANGING"

\* the claim as stated: after a REGIME_CHANGE moving one instrument to
\* VOLATILE, max_signals_per_minute is round(base * 0.7), quality_threshold
\* is base * 1.3 clamped at 0.9, and circuit_breaker_sensitivity is 1.5
S5AsStated ==
    OneVolatile =>
        /\ current_limits.max_signals_per_minute
               = RoundThousandths(CfgMaxSignalsPerMinute * 700)
        /\ current_limits.quality_threshold
               = Min(900 * One, BaseQualityThreshold * 1300)
        /\ regime_adjustment_factors.circuit_breaker_sensitivity = 1500

\* C31: after a REGIME_CHANGE moving one instrument to VOLATILE while the
\* other is RANGING, max_signals_per_minute is base * 0.7 cut to its integer
\* part, quality_threshold is base * 1.3 * 1.1 clamped at 0.9 (the regimes
\* differ), and circuit_breaker_sensitivity is 1.5
S5Adjusted ==
    OneVolatile =>
        /\ current_limits.max_signals_per_minute
               = (CfgMaxSignalsPerMinute * 700) \div One
        /\ current_limits.quality_threshold
               = Min(900 * One, BaseQualityThreshold * Mul(1300, 1100))
        /\ regime_adjustment_factors.circuit_breaker_sensitivity = 1500

S5AdjustedWitness ==
    /\ current_market_regime["WDO"] = "VOLATILE"
    /\ current_market_regime["DOL"] = "RANGING"
    /\ bus # <<>> /\ bus[1].topic = "RISK_REGIME_ADJUSTED"
    /\ current_limits.quality_threshold = 500500


-----------------------------------------------------------------------------
(* The main loop of SystemCoordinator *)

\* the steps of handle_market_data at which an analyzer can raise: the book
\* update and the processing of new trades
DetectorSteps == {1, 3}

LoopSignals == {Signal("CONFLUENCE", "ALERT", 50, "ICEBERG", 0, "WDO", "ICEBERG")}
LoopPnl == {0 - 200}

\* the outcomes of a pass in the runs of the daily reset
ResetOutcomes == {"data", "no_data", "error"}

\* the events of a pass as the bus carries them
OnBus(events) ==
    [i \in 1..Len(events) |-> Event(events[i].topic, NoSignal, "")]

\* one pass of the while loop of SystemCoordinator.start: the provider
\* returns a snapshot (and an analyzer raises in the handler at raised_at, 0
\* for none), returns nothing, or raises; maintenance and the performance
\* optimization run at multiples of 600 and 1000 passes, which no run here has
LoopIteration(outcome, raised_at, succeeded_at) ==
    LET ls == LoopState(consecutive_errors, error_count, last_error_time, running)
        completed == outcome \in CompletedOutcomes
        has_data == outcome \in {"data", "detector_raised"}
        swept == IF has_data
                 THEN CleanupExpiredSignals(active_signals,
                                            current_limits.signal_timeout, now)
                 ELSE active_signals
        reset == completed /\ ShouldReset(now, CfgDailyResetTime, last_daily_reset)
        passed == [ls |-> [ls EXCEPT !.consecutive_errors =
                                         IF has_data THEN 0 ELSE @],
                   slept |-> 0,
                   events |-> (IF has_data
                               THEN <<LoopEvent("MARKET_DATA_UPDATED", 0)>>
                               ELSE <<>>)
                              \o (IF reset THEN <<LoopEvent("DAILY_RESET", 0)>>
                                  ELSE <<>>)]
        h == CASE outcome = "error" -> GeneralErrorRaised(ls, now)
               [] outcome \in {"connection_restored", "connection_lost"} ->
                      HandleConnectionError(ls, succeeded_at)
               [] outcome \in {"memory_error", "keyboard_interrupt"} ->
                      [ls |-> [ls EXCEPT !.running = FALSE], slept |-> 0,
                       events |-> <<>>]
               [] OTHER -> passed
    IN /\ running
       /\ iterations < LoopMaxPasses
       /\ (raised_at # 0) <=> (outcome = "detector_raised")
       /\ (succeeded_at # 0) <=> (outcome = "connection_restored")
       /\ consecutive_errors' = h.ls.consecutive_errors
       /\ error_count' = h.ls.error_count
       /\ last_error_time' = h.ls.last_error_time
       /\ running' = h.ls.running
       /\ loop_count' = IF completed THEN loop_count + 1 ELSE loop_count
       /\ iterations' = iterations + 1
       /\ now' = now + h.slept
       /\ cache_max_size' = IF outcome = "memory_error"
                            THEN cache_max_size \div 2 ELSE cache_max_size
       /\ IF reset
          THEN /\ metrics' = [metrics EXCEPT !.daily_pnl = 0, !.peak_pnl = 0,
                                  !.current_drawdown = [num |-> 0, den |-> 1]]
               /\ signal_timestamps' =
                      [k \in DOMAIN signal_timestamps |->
                          PruneDeque(signal_timestamps[k], now - SecondsPerDay)]
               /\ active_signals' = {}
               /\ breakers' = ResetBreaker(breakers, "emergency")
               /\ last_daily_reset' = DateOf(now)
               /\ reset_log' = Append(reset_log, now)
          ELSE /\ active_signals' = swept
               /\ UNCHANGED <<metrics, signal_timestamps, breakers,
                              last_daily_reset, reset_log>>
       /\ bus' = OnBus(h.events)
       /\ last_iteration' =
              Iteration(outcome, now, h.slept, h.events,
                        IF has_data THEN StepsRun(raised_at) ELSE {},
                        ls, reset, Cardinality(swept))
       /\ UNCHANGED <<current_market_regime, regime_adjustment_factors,
                      current_limits, trade_log, s4_at>>
       /\ UNCHANGED <<cache, cache_stats, processed_trade_ids>>
       /\ UNCHANGED <<tapeVars, threadVars, busVars, persistVars, confluenceVars,
                      defensiveVars, dedupVars, confirmVars, flashVars>>

\* the main loop with every outcome of a pass
NextLoop ==
    \/ \E outcome \in LoopOutcomes, raised_at \in DetectorSteps \cup {0},
          succeeded_at \in 0..MaxReconnectAttempts :
           LoopIteration(outcome, raised_at, succeeded_at)
    \/ Tick(LoopGrid)

SpecLoop == InitRisk /\ [][NextLoop]_vars

\* the main loop over two days, with a candidate and a closed trade
NextReset ==
    \/ \E outcome \in ResetOutcomes : LoopIteration(outcome, 0, 0)
    \/ \E sig \in LoopSignals : SignalGenerated(sig, LoopMaxSignals)
    \/ \E pnl \in LoopPnl : TradeClosed(pnl, LoopMaxTrades)
    \/ Tick(ResetGrid)

SpecReset == InitRisk /\ [][NextReset]_vars

-----------------------------------------------------------------------------
(* The daily reset *)

\* C32: DAILY_RESET is published at most once per calendar date, and only at a
\* clock reading at or after the configured reset time of that date
DailyResetOncePerDate ==
    /\ \A i \in 1..Len(reset_log) : SecondsOfDay(reset_log[i]) >= CfgDailyResetTime
    /\ \A i, j \in 1..Len(reset_log) :
           i < j => DateOf(reset_log[i]) < DateOf(reset_log[j])

\* a second reset, on the next day, after passes before and after the reset
\* time of both days
DailyResetOncePerDateWitness ==
    /\ Len(reset_log) = 2
    /\ iterations >= 4

\* C33: once the daily reset has run on a date, a later pass of the loop on
\* that date leaves the daily PnL, the peak, the drawdown, the timestamp
\* deques, the active signals and the breakers as they were (the active
\* signals less those that the snapshot's handler expired)
DailyResetIdempotent ==
    [][(iterations' # iterations /\ last_daily_reset = DateOf(now)) =>
           /\ metrics' = metrics
           /\ signal_timestamps' = signal_timestamps
           /\ breakers' = breakers
           /\ last_daily_reset' = last_daily_reset
           /\ active_signals' \in
                  {active_signals,
                   CleanupExpiredSignals(active_signals,
                                         current_limits.signal_timeout, now)}]_vars

\* a pass without a snapshot, after the reset of the day, with a signal active
\* and a loss recorded since the reset
DailyResetIdempotentWitness ==
    /\ last_iteration.outcome = "no_data"
    /\ ~last_iteration.reset
    /\ last_iteration.active_before > 0
    /\ last_daily_reset = DateOf(last_iteration.at)
    /\ Len(reset_log) > 0
    /\ active_signals # {}
    /\ metrics.daily_pnl < 0


-----------------------------------------------------------------------------
(* Errors in the main loop *)

LastPublished(topic) ==
    \E i \in 1..Len(last_iteration.events) : last_iteration.events[i].topic = topic

\* the passes that stop the loop whatever the count of errors
StoppingOutcomes == {"memory_error", "keyboard_interrupt"}

\* C34: the loop runs while the count of consecutive errors is at most
\* max_consecutive_errors, and once the count exceeds it the loop has stopped
\* and SYSTEM_CRITICAL_FAILURE was published, whatever raised the errors
AbortsWhenCountExceeds ==
    /\ (consecutive_errors > CfgMaxConsecutiveErrors) =>
           (~running /\ LastPublished("SYSTEM_CRITICAL_FAILURE"))
    /\ (consecutive_errors <= CfgMaxConsecutiveErrors
            /\ last_iteration.outcome \notin StoppingOutcomes) => running

\* C35: a connection error after which every reconnect attempt failed is
\* handled as a generic exception is: SYSTEM_ERROR is published, the error is
\* counted, the generic backoff follows the attempts, and the loop stops when
\* the abort check of the generic branch says so
ConnectionLossSurfaced ==
    (last_iteration.outcome = "connection_lost") =>
        LET g == GeneralErrorRaised(last_iteration.before, last_iteration.at)
        IN /\ LastPublished("SYSTEM_ERROR")
           /\ error_count = g.ls.error_count
           /\ consecutive_errors = g.ls.consecutive_errors
           /\ last_iteration.slept >= g.slept + Pow2(MaxReconnectAttempts) - 1
           /\ running = g.ls.running

\* C36: when an analyzer raises in the handler of a snapshot, every other step
\* of the handler still runs, the loop goes on, and the coordinator's count of
\* errors goes up by one
DetectorFaultContained ==
    (last_iteration.outcome = "detector_raised") =>
        /\ Cardinality((1..HandlerSteps) \ last_iteration.steps) <= 1
        /\ running
        /\ error_count = last_iteration.before.error_count + 1

\* C40: a pass that completes without raising, with or without a snapshot,
\* leaves the count of consecutive errors at zero, so that errors separated
\* by completed passes never add up
SuccessResetsErrors ==
    (last_iteration.outcome \in CompletedOutcomes) => consecutive_errors = 0


-----------------------------------------------------------------------------
(* BookDynamicsAnalyzer: flash orders *)

\* _detect_flash_orders: a level is tracked while its volume is above this
FlashVolumeMin == 500
\* flash_order_seconds, the default
FlashOrderSeconds == 2
\* _cleanup_flash_tracking: tracking older than this is dropped
FlashTrackingSeconds == 60
\* books handed to the analyzer in a run
FlashMaxSnapshots == 5

\* the levels of the books of a run, named as the keys of flash_tracking, and
\* the volumes a level can show, 0 for a level that is not in the book
FlashLevels == {"BID_5500", "BID_5499", "ASK_5501"}
BidLevels == {"BID_5500", "BID_5499"}
FlashBooks ==
    {b \in [FlashLevels -> {0, 300, 600}] :
        /\ b["BID_5499"] # 600
        /\ b["ASK_5501"] = 300 \/ (b["ASK_5501"] = 0 /\ \A k \in BidLevels : b[k] = 300)}
\* seconds between two books
FlashElapsed == {1, 61}

\* analyze_book_update: not current_book.bids or not current_book.asks
OneSideEmpty(book) ==
    \/ \A k \in BidLevels : book[k] = 0
    \/ \A k \in FlashLevels \ BidLevels : book[k] = 0

\* _detect_flash_orders on the book of a snapshot taken at t: the tracking
\* after it and the signals it returns
DetectFlashOrders(track, book, t) ==
    LET large == {k \in FlashLevels : book[k] > FlashVolumeMin}
        tracked == {o.key : o \in track}
        added == track \cup {[key |-> k, first_seen |-> t, volume |-> book[k]] :
                                k \in large \ tracked}
        gone == {o \in added : o.key \notin large}
    IN [track |-> added \ gone,
        signals |-> {[pattern |-> "FLASH_ORDER", key |-> o.key,
                      volume |-> o.volume, lifetime_seconds |-> t - o.first_seen] :
                        o \in {g \in gone : t - g.first_seen <= FlashOrderSeconds}}]

CleanupFlashTracking(track, t) ==
    {o \in track : ~(t - o.first_seen > FlashTrackingSeconds)}

\* BookDynamicsAnalyzer.analyze_book_update for one symbol, elapsed seconds
\* after the book before; of the signals it returns, those of FLASH_ORDER
AnalyzeBookUpdate(book, elapsed) ==
    LET t == IF book_calls = <<>> THEN 0
             ELSE book_calls[Len(book_calls)].t + elapsed
        snapshot == [t |-> t, book |-> book]
        d == DetectFlashOrders(flash_tracking, book, t)
    IN /\ Len(book_calls) < FlashMaxSnapshots
       /\ book_calls' = Append(book_calls, snapshot)
       /\ IF OneSideEmpty(book)
          THEN /\ flash_signals' = {}
               /\ UNCHANGED <<book_history, flash_tracking>>
          ELSE IF book_history = <<>>
          THEN /\ book_history' = <<snapshot>>
               /\ flash_signals' = {}
               /\ UNCHANGED flash_tracking
          ELSE /\ book_history' = Append(book_history, snapshot)
               /\ flash_tracking' = CleanupFlashTracking(d.track, t)
               /\ flash_signals' = d.signals
       /\ UNCHANGED <<riskVars, tapeVars, threadVars, cacheVars, busVars,
                      persistVars, confluenceVars, defensiveVars, dedupVars,
                      confirmVars, loopVars>>

NextFlash ==
    \E book \in FlashBooks, elapsed \in FlashElapsed : AnalyzeBookUpdate(book, elapsed)

SpecFlash == InitRisk /\ [][NextFlash]_vars

\* C37: a FLASH_ORDER signal is for a level that came into the book with a
\* volume above 500, having been absent from the book before, stayed in it
\* until the book before the last, is absent from the last book, and was first
\* seen no more than 2 seconds before the last book
FlashOrderIsBrief ==
    \A s \in flash_signals :
        LET n == Len(book_calls)
        IN \E i \in 1..(n - 1) :
               /\ book_calls[i].book[s.key] > FlashVolumeMin
               /\ (i = 1) \/ (book_calls[i - 1].book[s.key] = 0)
               /\ \A j \in i..(n - 1) : book_calls[j].book[s.key] > 0
               /\ book_calls[n].book[s.key] = 0
               /\ book_calls[n].t - book_calls[i].t <= FlashOrderSeconds


-----------------------------------------------------------------------------
(* The verdict on a signal *)

\* the places of the verdicts on a signal among the events of a handler
VerdictsOn(b, sig) ==
    {i \in 1..Len(b) : /\ b[i].topic \in {"SIGNAL_APPROVED", "SIGNAL_REJECTED"}
                       /\ b[i].signal = sig}

\* C38: for a signal published on SIGNAL_GENERATED exactly one event is
\* published in answer, either SIGNAL_APPROVED or SIGNAL_REJECTED
ExactlyOneVerdict ==
    \A i \in 1..Len(bus) :
        (bus[i].topic = "SIGNAL_GENERATED") =>
            Cardinality(VerdictsOn(bus, bus[i].signal)) = 1

\* a signal has just been rejected while another, approved before, is active
ExactlyOneVerdictWitness ==
    /\ Published(bus, "SIGNAL_GENERATED")
    /\ Published(bus, "SIGNAL_REJECTED")
    /\ ~Published(bus, "SIGNAL_APPROVED")
    /\ active_signals # {}


-----------------------------------------------------------------------------
(* Confirmed patterns in risk evaluation *)

\* the alert levels in order
LevelRank(level) ==
    IF level = "ALERT" THEN 3 ELSE IF level = "WARNING" THEN 2 ELSE 1

\* C39: the signal published for a confirmed pattern has an alert level and a
\* quality score at least those of the signal the formatter makes of the same
\* pattern unconfirmed, and its score passes the default quality threshold
ConfirmationKeepsStrength ==
    \A i \in 1..Len(bus) :
        (/\ bus[i].topic = "SIGNAL_GENERATED"
         /\ bus[i].signal.pattern # BasePattern(bus[i].signal.pattern)) =>
            LET sig == bus[i].signal
                plain == Format([pattern |-> BasePattern(sig.pattern),
                                 cvd_roc |-> sig.cvd_roc], sig.symbol)
            IN /\ LevelRank(sig.level) >= LevelRank(plain.level)
               /\ NormalizedScore(sig) >= NormalizedScore(plain)
               /\ QualityPassed(sig, BaseQualityThreshold * One)

====
